---- MODULE Spec2Model ----
(***************************************************************************)
(* Project Aegis: the LangGraph workflow of AgenticAIs/orchestrator.py     *)
(* (agent nodes, routing functions, iteration/escalation policy) and the   *)
(* candidate selection engine of shared/quantum_integration.py.            *)
(*                                                                         *)
(* Units.  Risk scores and the risk threshold are kept in tenths           *)
(* (4.0 -> 40), candidate scores in tenths (0.5 -> 5), impact              *)
(* probabilities in hundredths (0.95 -> 95), velocities in tenths of km/s,   *)
(* angles in degrees, fuel in kg.  An optional value (Python None or a dict) is   *)
(* a sequence of length 0 or 1.  A piece of free text is a sequence of     *)
(* tokens.                                                                 *)
(***************************************************************************)
EXTENDS Integers, Sequences, FiniteSets, TLC

VARIABLES
    pc,                     \* node or conditional edge the graph runs next
    config,                 \* get_config(): max_iterations, risk_threshold
    asteroid_data,          \* aegis_state['asteroid_data']
    threat_assessment,      \* aegis_state['threat_assessment']
    simulation_candidates,  \* aegis_state['simulation_candidates']
    quantum_result,         \* aegis_state['quantum_result']
    safety_evaluation,      \* aegis_state['safety_evaluation']
    iteration_count,        \* aegis_state['iteration_count']
    workflow_status,        \* aegis_state['workflow_status']
    execution_log,          \* aegis_state['execution_log']
    error,                  \* OrchestratorState['error']: who raised, or None
    last_step,              \* history: the step the graph ran last, with outcome
    rejects,                \* history: REJECT verdicts recorded by agent_3_node
    qi_pc,                  \* a caller of the selection engine: raw, called,
                            \* returned, raised
    qi_candidates,          \* the candidates argument (mutated in place)
    qi_result,              \* the dict the last call returned
    qi_engine,              \* the quantum_integration module that is imported
    qi_qiskit,              \* qiskit and qiskit_aer can be imported
    qi_raw,                 \* the raw candidates of the Strategy stage, if any
    qi_input,               \* history: the list as the first call received it
    qi_calls,               \* history: calls of run_quantum_optimization made
    qi_previous,            \* history: the dict the call before the last returned
    _subscribers,           \* messaging._subscribers: topic -> list of callbacks
    _lock,                  \* messaging._lock: the thread that holds it, or None
    bus_pc,                 \* the statement of messaging.py each thread is at
    bus_frame,              \* the arguments of the call each thread is in
    listeners,              \* publish: the local list each thread iterates
    invoked,                \* history: the callbacks each thread's publish called
    raised_at,              \* history: positions of listeners whose callback raised
    registrations,          \* history: the subscribe calls in the order they appended
    expected,               \* history: the registrations in force at the snapshot
    bus_last,               \* history: how each thread's last call ended
    bus_calls,              \* history: calls of the bus made so far
    _database,              \* database._database: the global instance, or None
    instances,              \* the InMemoryDatabase objects constructed so far
    db_pc,                  \* the statement of database.py each run is at
    db_local,               \* each run's locals: its instance, the value read
    db_inserted,            \* history: the ids insert_log returned to each run
    db_inserts,             \* history: calls of insert_log made so far
    published,              \* history: the topics the last stage published
    hints,                  \* history: the feedback the last Strategy stage passed on
    llm_pc,                 \* the statement of Agent1.query / _call_agent
    messages,               \* state["messages"] of the agent graph, by kind
    attempt,                \* _call_agent: the loop variable
    llm_history,            \* history: invocations of the service by this _call_agent
    llm_clock,              \* seconds this _call_agent has slept
    llm_rounds,             \* history: executions of _call_agent in this query
    llm_error,              \* the exception that left _call_agent, or None
    st_pc,                  \* a caller of evaluate_safety_score: called, returned
    st_args,                \* the arguments of evaluate_safety_score
    st_result,              \* the dict evaluate_safety_score returned
    executions,             \* history: executions of each agent stage in this run
    js_pc,                  \* main after the run: result, saved, loaded
    js_state,               \* the state run_aegis_workflow returned to main
    js_text,                \* the JSON document json.dump wrote, or None
    js_loaded               \* the state json.load read back, or None

\* the state of a workflow run
workflow_vars ==
    <<pc, config, asteroid_data, threat_assessment, simulation_candidates,
      quantum_result, safety_evaluation, iteration_count, workflow_status,
      execution_log, error, last_step, rejects, published, hints,
      executions>>

\* the state of a direct call of the selection engine
selection_vars ==
    <<qi_pc, qi_candidates, qi_result, qi_engine, qi_qiskit, qi_raw, qi_input,
      qi_calls, qi_previous>>

\* the state of the process-wide event bus and of the threads that call it
bus_vars ==
    <<_subscribers, _lock, bus_pc, bus_frame, listeners, invoked, raised_at,
      registrations, expected, bus_last, bus_calls>>

\* the bus apart from its subscriber lists
bus_rest ==
    <<_lock, bus_pc, bus_frame, listeners, invoked, raised_at, registrations,
      expected, bus_last, bus_calls>>

\* the state of the process-wide record store and of the runs that insert
db_vars ==
    <<_database, instances, db_pc, db_local, db_inserted, db_inserts>>

\* the state of one Agent1.query call
adv_vars ==
    <<llm_pc, messages, attempt, llm_history, llm_clock, llm_rounds, llm_error>>

\* the state of a direct call of the safety tool
tool_vars == <<st_pc, st_args, st_result>>

\* the state of main's export of a finished run
json_vars == <<js_pc, js_state, js_text, js_loaded>>

vars == <<workflow_vars, selection_vars, bus_vars, db_vars, adv_vars, tool_vars, json_vars>>

----------------------------------------------------------------------------
(* Bounds of the model *)

MaxIterationsBound == 3

\* calls of run_quantum_optimization on one list
MaxCalls == 2

\* raw candidates a plan may carry
MaxRawLen == 17

\* calls of subscribe, unsubscribe functions and publish, over all threads
MaxBusCalls == 5

\* calls of insert_log, over all runs
MaxInserts == 4

\* rounds of tool calls the reasoning service asks for in one query
MaxToolRounds == 2

----------------------------------------------------------------------------
(* Program constants *)

DefaultMaxIterations == 3
DefaultRiskThreshold == 40
FallbackRiskScore == 50
NumCandidates == 16
MaxRetries == 3
API_REQUEST_DELAY == 35

None == <<>>
Some(x) == <<x>>
IsSet(o) == Len(o) = 1

Min(a, b) == IF a <= b THEN a ELSE b
Max(a, b) == IF a >= b THEN a ELSE b

----------------------------------------------------------------------------
(* Free text: a sequence of tokens, a word or a number (in tenths) *)

W(w) == [k |-> "word", w |-> w, v |-> 0]
N(v) == [k |-> "num", w |-> "", v |-> v]

IsWord(t, w) == t.k = "word" /\ t.w = w
IsNum(t) == t.k = "num"

\* the answers of the threat agent the model distinguishes
Agent1Responses ==
    { <<W("risk"), W("score"), W(":"), N(70), W("/"), N(100)>>,
      <<W("risk"), W(":"), N(20)>>,
      <<W("recommendation"), W("no_action")>> }

\* position of the first token at or after i that is not a ':' (regex [:\s]*)
RECURSIVE SkipColons(_, _)
SkipColons(r, i) ==
    IF i <= Len(r) /\ IsWord(r[i], ":") THEN SkipColons(r, i + 1) ELSE i

\* r'risk\s*(?:score|level)?[:\s]*(\d+(?:\.\d+)?)' anchored at token i
\* (the optional group is greedy and backtracks to the empty match)
Pattern1At(r, i) ==
    IF ~IsWord(r[i], "risk") THEN None
    ELSE LET j == IF i + 1 <= Len(r)
                     /\ (IsWord(r[i + 1], "score") \/ IsWord(r[i + 1], "level"))
                   THEN i + 2 ELSE i + 1
             a == SkipColons(r, j)
             b == SkipColons(r, i + 1)
         IN  IF a <= Len(r) /\ IsNum(r[a]) THEN Some(r[a].v)
             ELSE IF b <= Len(r) /\ IsNum(r[b]) THEN Some(r[b].v)
             ELSE None

\* r'(\d+(?:\.\d+)?)\s*/\s*10' anchored at token i
Pattern2At(r, i) ==
    IF IsNum(r[i]) /\ i + 2 <= Len(r) /\ IsWord(r[i + 1], "/")
       /\ IsNum(r[i + 2]) /\ r[i + 2].v = 100
    THEN Some(r[i].v) ELSE None

\* r'score[:\s]*(\d+(?:\.\d+)?)' anchored at token i
Pattern3At(r, i) ==
    IF ~IsWord(r[i], "score") THEN None
    ELSE LET a == SkipColons(r, i + 1)
         IN  IF a <= Len(r) /\ IsNum(r[a]) THEN Some(r[a].v) ELSE None

\* re.search: the leftmost match of pattern p (1, 2 or 3)
PatternAt(p, r, i) ==
    IF p = 1 THEN Pattern1At(r, i)
    ELSE IF p = 2 THEN Pattern2At(r, i) ELSE Pattern3At(r, i)

RECURSIVE Search(_, _, _)
Search(p, r, i) ==
    IF i > Len(r) THEN None
    ELSE IF IsSet(PatternAt(p, r, i)) THEN PatternAt(p, r, i)
    ELSE Search(p, r, i + 1)

\* one of the three patterns finds a number in the response
HasRiskScore(response) ==
    \E p \in 1..3 : IsSet(Search(p, response, 1))

\* the formula-only score of _extract_risk_score
FormulaRiskScore(data) ==
    LET base_score == data.impact_probability
                      + (IF data.diameter_m > 300 THEN 20 ELSE 0)
                      + (IF data.diameter_m > 500 THEN 20 ELSE 0)
    IN  Min(100, base_score)

_extract_risk_score(response, data) ==
    LET m1 == Search(1, response, 1)
        m2 == Search(2, response, 1)
        m3 == Search(3, response, 1)
        Clamp(score) == Min(100, Max(0, score))
    IN  IF IsSet(m1) THEN Clamp(m1[1])
        ELSE IF IsSet(m2) THEN Clamp(m2[1])
        ELSE IF IsSet(m3) THEN Clamp(m3[1])
        ELSE FormulaRiskScore(data)

----------------------------------------------------------------------------
(* shared/quantum_integration.py: the candidate selection engine *)

\* dict.get(key, default) on an optional field
Get(field, default) == IF IsSet(field) THEN field[1] ELSE default

\* the constraints dict agent_2_node builds
Constraints ==
    [max_velocity |-> 250, min_velocity |-> 50,
     max_fragmentation |-> 100, max_fuel |-> 5000]

Clamp01(score) == Max(0, Min(10, score))

\* has_constraints: the 'if constraints:' test (None or {} skip the fuel term)
_calculate_candidate_score(candidate, has_constraints, constraints) ==
    LET velocity == Get(candidate.velocity_km_s, 100)
        angle == Get(candidate.angle_degrees, 30)
        fuel == Get(candidate.estimated_fuel_kg, 3000)
        s_velocity == IF 100 <= velocity /\ velocity <= 150 THEN 2
                      ELSE IF velocity < 80 \/ velocity > 200 THEN -2 ELSE 0
        s_angle == IF 15 <= angle /\ angle <= 45 THEN 2
                   ELSE IF angle < 10 \/ angle > 60 THEN -1 ELSE 0
        s_fuel == IF ~has_constraints THEN 0
                  ELSE IF fuel * 10 < constraints.max_fuel * 7 THEN 1
                  ELSE IF fuel > constraints.max_fuel THEN -3 ELSE 0
    IN  Clamp01(5 + s_velocity + s_angle + s_fuel)

\* the entry prepare_candidates_for_quantum writes for raw candidate c at
\* 0-based position i
FormatCandidate(i, c, constraints) ==
    LET velocity == Get(c.velocity_km_s, 100)
        angle == Get(c.angle_degrees, 30)
        est_frag_over == velocity * 100 > constraints.max_fragmentation * 200
        is_valid == ~(velocity > constraints.max_velocity)
                    /\ ~(velocity < constraints.min_velocity)
                    /\ ~est_frag_over
    IN  [id |-> Some(i),
         velocity_km_s |-> Some(velocity),
         angle_degrees |-> Some(angle),
         estimated_fuel_kg |-> Some(Get(c.estimated_fuel_kg, 3000)),
         score |-> Some(_calculate_candidate_score(c, TRUE, constraints)),
         validity |-> Some(is_valid),
         strategy |-> Get(c.strategy, "kinetic")]

\* the padding entry appended at 0-based position i
PaddingCandidate(i) ==
    [id |-> Some(i),
     velocity_km_s |-> Some(100),
     angle_degrees |-> Some(30),
     estimated_fuel_kg |-> Some(3000),
     score |-> Some(1),
     validity |-> Some(FALSE),
     strategy |-> "padding"]

\* a preparation that pads but does not drop the extra candidates
prepare_candidates_for_quantum_NoTruncation(raw_candidates, constraints) ==
    [k \in 1..Max(Len(raw_candidates), NumCandidates) |->
        IF k <= Len(raw_candidates)
        THEN FormatCandidate(k - 1, raw_candidates[k], constraints)
        ELSE PaddingCandidate(k - 1)]

prepare_candidates_for_quantum(raw_candidates, constraints) ==
    LET taken == Min(Len(raw_candidates), NumCandidates)
    IN  [k \in 1..NumCandidates |->
            IF k <= taken
            THEN FormatCandidate(k - 1, raw_candidates[k], constraints)
            ELSE PaddingCandidate(k - 1)]

\* c.get('validity', True) and c.get('score', 0) of the candidate at
\* 0-based index i
ValidAt(candidates, i) == Get(candidates[i + 1].validity, TRUE)
ScoreAt(candidates, i) == Get(candidates[i + 1].score, 0)

\* max(generator over the valid indices, key=score): Python's max keeps the
\* first element whose key is not exceeded by a later one.  best = -1 while
\* no valid index was seen.
RECURSIVE MaxValidFrom(_, _, _)
MaxValidFrom(candidates, i, best) ==
    IF i >= Len(candidates) THEN best
    ELSE IF ValidAt(candidates, i)
            /\ (best = -1 \/ ScoreAt(candidates, i) > ScoreAt(candidates, best))
         THEN MaxValidFrom(candidates, i + 1, i)
         ELSE MaxValidFrom(candidates, i + 1, best)

BestValidIndex(candidates) == MaxValidFrom(candidates, 0, -1)

HasValid(candidates) ==
    \E i \in 0..(Len(candidates) - 1) : ValidAt(candidates, i)

\* a fallback that takes the best score of all when no candidate is valid
_run_classical_fallback_BestOfAll(candidates) ==
    [optimal_index |->
         IF ~HasValid(candidates)
         THEN CHOOSE i \in 0..(Len(candidates) - 1) :
                  /\ \A j \in 0..(Len(candidates) - 1) :
                         ScoreAt(candidates, j) <= ScoreAt(candidates, i)
                  /\ \A j \in 0..(i - 1) :
                         ScoreAt(candidates, j) < ScoreAt(candidates, i)
         ELSE BestValidIndex(candidates),
     success_probability |-> 100,
     qubits_used |-> 0,
     iterations |-> 16,
     quantum_advantage |-> 10,
     is_classical_fallback |-> TRUE]

\* a fallback that keeps the last of several best candidates
_run_classical_fallback_LastBest(candidates) ==
    [optimal_index |->
         IF ~HasValid(candidates) THEN 0
         ELSE CHOOSE i \in 0..(Len(candidates) - 1) :
                  /\ ValidAt(candidates, i)
                  /\ \A j \in 0..(Len(candidates) - 1) :
                         ValidAt(candidates, j) =>
                             /\ ScoreAt(candidates, j) <= ScoreAt(candidates, i)
                             /\ j > i => ScoreAt(candidates, j)
                                             < ScoreAt(candidates, i),
     success_probability |-> 100,
     qubits_used |-> 0,
     iterations |-> 16,
     quantum_advantage |-> 10,
     is_classical_fallback |-> TRUE]

_run_classical_fallback(candidates) ==
    [optimal_index |-> IF ~HasValid(candidates) THEN 0
                       ELSE BestValidIndex(candidates),
     success_probability |-> 100,
     qubits_used |-> 0,
     iterations |-> 16,
     quantum_advantage |-> 10,
     is_classical_fallback |-> TRUE]

\* the loop of run_quantum_optimization that fills in missing fields in place
WithDefaults(candidates, has_constraints, constraints) ==
    [k \in 1..Len(candidates) |->
        LET c == candidates[k]
            c1 == IF IsSet(c.id) THEN c ELSE [c EXCEPT !.id = Some(k - 1)]
            c2 == IF IsSet(c1.validity) THEN c1
                  ELSE [c1 EXCEPT !.validity = Some(TRUE)]
        IN  IF IsSet(c2.score) THEN c2
            ELSE [c2 EXCEPT !.score =
                     Some(_calculate_candidate_score(c2, has_constraints,
                                                     constraints))]]

----------------------------------------------------------------------------
(* shared/state_schema.py *)

Step(step, outcome) == [step |-> step, outcome |-> outcome]

LogEntry(agent, action) == [agent |-> agent, action |-> action]

\* a log that puts the newest entry first
add_log_entry_Prepend(log, agent, action) == <<LogEntry(agent, action)>> \o log

\* state["execution_log"].append(entry)
add_log_entry(log, agent, action) == Append(log, LogEntry(agent, action))

\* the subjects the model distinguishes: formula-only scores 0.2 and 8.5
Asteroids ==
    { [impact_probability |-> 2, diameter_m |-> 100],
      [impact_probability |-> 45, diameter_m |-> 600] }
RiskThresholds == {DefaultRiskThreshold, 60}

\* the threads that call the event bus, its topics and the callbacks
Threads == {"t1", "t2"}
Topics == {"agent_2/plan", "agent_3/safety"}
Callbacks == {"_on_plan", "on_event"}

\* the frame of a thread that is in no call of the bus
NoFrame == [topic |-> "", callback |-> "", handle |-> 0]

\* messaging.py as imported: no subscriber, the lock free, no thread in a call
BusIdle ==
    /\ _subscribers = [topic \in Topics |-> None]
    /\ _lock = None
    /\ bus_pc = [t \in Threads |-> "idle"]
    /\ bus_frame = [t \in Threads |-> NoFrame]
    /\ listeners = [t \in Threads |-> <<>>]
    /\ invoked = [t \in Threads |-> <<>>]
    /\ raised_at = [t \in Threads |-> {}]
    /\ registrations = <<>>
    /\ expected = [t \in Threads |-> <<>>]
    /\ bus_last = [t \in Threads |-> "none"]
    /\ bus_calls = 0

\* the workflow runs that share the record store
Runs == {"run1", "run2"}

\* the locals of a run that is in no call of the record store
NoLocals == [db |-> 0, read |-> 0, log_id |-> 0]

\* database.py as imported: _database is None, no instance constructed
DbIdle ==
    /\ _database = None
    /\ instances = <<>>
    /\ db_pc = [r \in Runs |-> "idle"]
    /\ db_local = [r \in Runs |-> NoLocals]
    /\ db_inserted = [r \in Runs |-> <<>>]
    /\ db_inserts = 0

\* no Agent1.query call is in progress
AdvisoryIdle ==
    /\ llm_pc = "idle"
    /\ messages = <<>>
    /\ attempt = 0
    /\ llm_history = <<>>
    /\ llm_clock = 0
    /\ llm_rounds = 0
    /\ llm_error = None

\* no direct call of evaluate_safety_score is in progress
ToolIdle ==
    /\ st_pc = "idle"
    /\ st_args = [fragmentation_risk_pct |-> 0, deflection_distance_km |-> 0,
                  quantum_confidence |-> 0]
    /\ st_result = None

\* the Python values main exports: a str is kept as its tokens
PyStr(tokens) == [py |-> "str", int |-> 0, str |-> tokens]
PyInt(n) == [py |-> "int", int |-> n, str |-> <<>>]
PyNone == [py |-> "NoneType", int |-> 0, str |-> <<>>]

\* main has no finished run to export
JsonIdle ==
    /\ js_pc = "idle"
    /\ js_state = [workflow_status |-> PyNone, iteration_count |-> PyNone,
                   optimal_index |-> PyNone]
    /\ js_text = None
    /\ js_loaded = None

\* no agent stage has run yet
NoExecutions == [agent_1 |-> 0, agent_2 |-> 0, agent_3 |-> 0]

\* what a Strategy stage that has not called its planner has passed on
NoHints ==
    [planner_called |-> FALSE, planner |-> None,
     generator_called |-> FALSE, generator |-> None]

\* no direct call of the selection engine is in progress
SelectionIdle ==
    /\ qi_pc = "idle"
    /\ qi_candidates = <<>>
    /\ qi_result = None
    /\ qi_engine = "classical"
    /\ qi_qiskit = FALSE
    /\ qi_raw = None
    /\ qi_input = <<>>
    /\ qi_calls = 0
    /\ qi_previous = None

Init ==
    /\ pc = "agent_1"
    /\ config \in [max_iterations : 0..MaxIterationsBound,
                   risk_threshold : RiskThresholds]
    /\ asteroid_data \in Asteroids
    /\ threat_assessment = None
    /\ simulation_candidates = None
    /\ quantum_result = None
    /\ safety_evaluation = None
    /\ iteration_count = 0
    /\ workflow_status = "IN_PROGRESS"
    /\ execution_log = <<>>
    /\ error = None
    /\ last_step = Step("start", "done")
    /\ rejects = 0
    /\ published = <<>>
    /\ hints = NoHints
    /\ executions = NoExecutions
    /\ SelectionIdle
    /\ BusIdle
    /\ DbIdle
    /\ AdvisoryIdle
    /\ ToolIdle
    /\ JsonIdle

----------------------------------------------------------------------------
(* orchestrator.py: agent_1_node *)

\* the threat assessment written by the except branch
Agent1Default ==
    [risk_score |-> FallbackRiskScore, requires_deflection |-> TRUE,
     error |-> TRUE, raw_response |-> None]

Agent1Assessment(response, risk_score, risk_threshold) ==
    [risk_score |-> risk_score,
     requires_deflection |-> risk_score >= risk_threshold,
     error |-> FALSE, raw_response |-> Some(response)]

\* Agent1() or agent.query raises: nothing of the try block has run
agent_1_raise ==
    /\ pc = "agent_1"
    /\ last_step' = Step("agent_1", "raised")
    /\ error' = Some("agent_1")
    /\ threat_assessment' = Some(Agent1Default)
    /\ pc' = "route_after_agent_1"
    /\ UNCHANGED <<rejects, config, asteroid_data, simulation_candidates, quantum_result,
                   safety_evaluation, iteration_count, workflow_status,
                   execution_log,
                   selection_vars, bus_vars, db_vars, adv_vars,
                   tool_vars, json_vars>>
    /\ published' = <<>>
    /\ UNCHANGED hints
    /\ executions' = [executions EXCEPT !.agent_1 = @ + 1]

\* agent.query answers; db.insert_log succeeds or raises after the state
\* and the log were written
agent_1_answer ==
    /\ pc = "agent_1"
    /\ \E response \in Agent1Responses, db_ok \in BOOLEAN :
         LET risk_score == _extract_risk_score(response, asteroid_data)
         IN  /\ execution_log' = add_log_entry(execution_log, "agent_1",
                                               "THREAT_ASSESSMENT_COMPLETE")
             /\ IF db_ok
                THEN /\ threat_assessment' = Some(Agent1Assessment(response, risk_score,
                                                 config.risk_threshold))
                     /\ error' = error
                     /\ last_step' = Step("agent_1", "answered")
                ELSE /\ threat_assessment' = Some(Agent1Default)
                     /\ error' = Some("agent_1")
                     /\ last_step' = Step("agent_1", "db_failed")
    /\ pc' = "route_after_agent_1"
    /\ UNCHANGED <<rejects, config, asteroid_data, simulation_candidates, quantum_result,
                   safety_evaluation, iteration_count, workflow_status,
                   selection_vars, bus_vars, db_vars, adv_vars,
                   tool_vars, json_vars>>
    /\ published' = IF last_step'.outcome = "answered"
                    THEN <<"agent_1/assessment">> ELSE <<>>
    /\ UNCHANGED hints
    /\ executions' = [executions EXCEPT !.agent_1 = @ + 1]

agent_1_node == agent_1_raise \/ agent_1_answer

(* orchestrator.py: route_after_agent_1 *)

\* a routing that ignores requires_deflection
RouteAfterAgent1_AlwaysPlan(threat) ==
    IF IsSet(threat) THEN "agent_2" ELSE "END"

\* threat: aegis_state.get('threat_assessment', {}); the returned edge
RouteAfterAgent1(threat) ==
    IF IsSet(threat) /\ threat[1].requires_deflection THEN "agent_2" ELSE "END"

route_after_agent_1 ==
    /\ pc = "route_after_agent_1"
    /\ pc' = RouteAfterAgent1(threat_assessment)
    /\ last_step' = Step("route_after_agent_1",
                         RouteAfterAgent1(threat_assessment))
    /\ UNCHANGED <<rejects, config, asteroid_data, threat_assessment,
                   simulation_candidates, quantum_result, safety_evaluation,
                   iteration_count, workflow_status, execution_log, error,
                   selection_vars, bus_vars, db_vars, adv_vars,
                   tool_vars, json_vars>>
    /\ UNCHANGED <<published, hints>>
    /\ UNCHANGED executions

----------------------------------------------------------------------------
(* shared/quantum_integration.py: run_quantum_optimization, as imported by *)
(* the orchestrator (deterministic mode only)                             *)

\* raised: the length check failed; candidates: the list after the in-place
\* defaults; result: the returned dict
\* an engine that selects before it writes the defaults
run_quantum_optimization_SelectFirst(candidates, has_constraints, constraints) ==
    IF Len(candidates) # NumCandidates
    THEN [raised |-> TRUE, candidates |-> candidates, result |-> None]
    ELSE [raised |-> FALSE,
          candidates |-> WithDefaults(candidates, has_constraints, constraints),
          result |-> Some(_run_classical_fallback(candidates))]

\* an engine that writes the defaults before it validates the length
run_quantum_optimization_FillFirst(candidates, has_constraints, constraints) ==
    LET filled == WithDefaults(candidates, has_constraints, constraints)
    IN  IF Len(candidates) # NumCandidates
        THEN [raised |-> TRUE, candidates |-> filled, result |-> None]
        ELSE [raised |-> FALSE, candidates |-> filled,
              result |-> Some(_run_classical_fallback(filled))]

run_quantum_optimization(candidates, has_constraints, constraints) ==
    IF Len(candidates) # NumCandidates
    THEN [raised |-> TRUE, candidates |-> candidates, result |-> None]
    ELSE LET filled == WithDefaults(candidates, has_constraints, constraints)
         IN  [raised |-> FALSE, candidates |-> filled,
              result |-> Some(_run_classical_fallback(filled))]

----------------------------------------------------------------------------
(* orchestrator.py: agent_2_node *)

\* bool(text): None and '' are falsy
Truthy(text) == IsSet(text) /\ Len(text[1]) > 0

HasWord(text, w) == \E i \in 1..Len(text) : IsWord(text[i], w)

\* random.uniform(-1, 1) and random.uniform(-3, 3) of
\* _generate_simulation_candidates: the draws the model distinguishes, the
\* same pair for every candidate of one call
Jitters == { [v |-> -10, a |-> 3], [v |-> 10, a |-> -3] }

_generate_simulation_candidates(hint, jitter) ==
    LET min_velocity == 80
        max_velocity == IF Truthy(hint) /\ HasWord(hint[1], "VELOCITY")
                        THEN (200 * 8) \div 10 ELSE 200
    IN  [k \in 1..16 |->
            LET i == k - 1
            IN  [id |-> Some(i),
                 strategy |-> Some("kinetic"),
                 velocity_km_s |-> Some(min_velocity
                                        + ((max_velocity - min_velocity) * i) \div 15
                                        + jitter.v),
                 angle_degrees |-> Some(15 + (35 * (15 - i)) \div 15 + jitter.a),
                 estimated_fuel_kg |-> Some(2500 + i * 100)]]

RawCandidate(v, a, f) ==
    [id |-> None, strategy |-> None, velocity_km_s |-> Some(v),
     angle_degrees |-> Some(a), estimated_fuel_kg |-> Some(f)]

\* result.get('candidates', []) of the plans the model distinguishes: no
\* candidates (they are generated) or fewer than 16 (they are padded)
PlannerCandidateLists ==
    { <<>>,
      <<RawCandidate(120, 30, 3000), RawCandidate(300, 70, 6000),
        RawCandidate(120, 30, 3000)>> }

\* the feedback agent_2_node reads from the previous safety evaluation
RejectionFeedback ==
    IF IsSet(safety_evaluation) /\ safety_evaluation[1].verdict = "REJECT"
    THEN safety_evaluation[1].feedback ELSE None

\* StrategicPlanner(), plan_mission or the candidate preparation raises: the
\* except branch records the message and leaves aegis_state as it was
agent_2_raise ==
    /\ pc = "agent_2"
    /\ last_step' = Step("agent_2", "raised")
    /\ error' = Some("agent_2")
    /\ pc' = "agent_3"
    /\ UNCHANGED <<rejects, config, asteroid_data, threat_assessment,
                   simulation_candidates, quantum_result, safety_evaluation,
                   iteration_count, workflow_status, execution_log,
                   selection_vars, bus_vars, db_vars, adv_vars,
                   tool_vars, json_vars>>
    /\ \E planner_called \in BOOLEAN :
         hints' = [NoHints EXCEPT
                      !.planner_called = planner_called,
                      !.planner = IF planner_called /\ Truthy(RejectionFeedback)
                                  THEN RejectionFeedback ELSE None]
    /\ published' = <<>>
    /\ executions' = [executions EXCEPT !.agent_2 = @ + 1]

\* the planner answers; candidates are prepared and one is selected;
\* db.insert_log succeeds or raises after the state and the log were written
agent_2_plan ==
    /\ pc = "agent_2"
    /\ \E planned \in PlannerCandidateLists, jitter \in Jitters,
          db_ok \in BOOLEAN :
         LET hint == RejectionFeedback
             raw_candidates ==
                 IF Len(planned) = 0
                 THEN _generate_simulation_candidates(hint, jitter)
                 ELSE planned
             candidates == prepare_candidates_for_quantum(raw_candidates,
                                                          Constraints)
         IN  \* run and quantum are bound once, as the code's local variables
             \E run \in {run_quantum_optimization(candidates, TRUE,
                                                  Constraints)} :
             \E quantum \in {run.result[1]} :
             LET optimal_idx == quantum.optimal_index
             IN
             /\ ~run.raised
             /\ simulation_candidates' = Some(run.candidates)
             /\ quantum_result' =
                    Some([optimal_index |-> optimal_idx,
                          optimal_solution |-> run.candidates[optimal_idx + 1],
                          success_probability |-> quantum.success_probability,
                          qubits_used |-> quantum.qubits_used,
                          iterations |-> quantum.iterations,
                          quantum_advantage |-> quantum.quantum_advantage])
             /\ execution_log' = add_log_entry(execution_log, "agent_2",
                                               "QUANTUM_OPTIMIZATION_COMPLETE")
             /\ error' = IF db_ok THEN error ELSE Some("agent_2")
             /\ last_step' = Step("agent_2", IF db_ok THEN "planned"
                                             ELSE "db_failed")
             /\ published' = IF db_ok THEN <<"agent_2/plan">> ELSE <<>>
             /\ hints' =
                    [planner_called |-> TRUE,
                     planner |-> IF Truthy(hint) THEN hint ELSE None,
                     generator_called |-> Len(planned) = 0,
                     generator |-> IF Len(planned) = 0 THEN hint ELSE None]
    /\ pc' = "agent_3"
    /\ UNCHANGED <<rejects, config, asteroid_data, threat_assessment, safety_evaluation,
                   iteration_count, workflow_status,
                   selection_vars, bus_vars, db_vars, adv_vars,
                   tool_vars, json_vars>>
    /\ executions' = [executions EXCEPT !.agent_2 = @ + 1]

agent_2_node == agent_2_raise \/ agent_2_plan

----------------------------------------------------------------------------
(* Agent-3/agent_3_safety_validator.py: _parse_decision *)

\* words are kept upper-cased, as _parse_decision compares response.upper()
HasPair(text, w1, w2) ==
    \E i \in 1..(Len(text) - 1) : IsWord(text[i], w1) /\ IsWord(text[i + 1], w2)

\* 'APPROVE' in response_upper: a substring of APPROVE, APPROVED, APPROVES
ContainsApprove(text) ==
    HasWord(text, "APPROVE") \/ HasWord(text, "APPROVED")
ContainsReject(text) ==
    HasWord(text, "REJECT") \/ HasWord(text, "REJECTED")

\* response: None when the validator graph produced no final answer
_parse_decision(response) ==
    IF ~IsSet(response) THEN "ERROR"
    ELSE LET text == response[1]
         IN  IF HasPair(text, "MISSION", "APPROVED")
                \/ HasPair(text, "CHECK_MARK", "APPROVE")
                \/ HasPair(text, "CHECK_MARK", "APPROVED")
             THEN "APPROVED"
             ELSE IF HasPair(text, "MISSION", "REJECTED")
                     \/ HasPair(text, "CROSS_MARK", "REJECT")
                     \/ HasPair(text, "CROSS_MARK", "REJECTED")
             THEN "REJECTED"
             ELSE IF ContainsApprove(text) /\ ~ContainsReject(text)
             THEN "APPROVED"
             ELSE IF ContainsReject(text) THEN "REJECTED"
             ELSE "UNKNOWN"

\* the final answers of the validator the model distinguishes
ValidatorResponses ==
    { None,
      Some(<<W("MISSION"), W("APPROVED"), W("FRAGMENTATION"), N(40), W("%")>>),
      Some(<<W("MISSION"), W("REJECTED"), W("REDUCE"), W("VELOCITY")>>),
      Some(<<>>) }

----------------------------------------------------------------------------
(* orchestrator.py: _extract_metric and agent_3_node *)

\* first number at or after token i that is directly followed by unit
RECURSIVE FirstWithUnit(_, _, _)
FirstWithUnit(text, i, unit) ==
    IF i + 1 > Len(text) THEN None
    ELSE IF IsNum(text[i]) /\ IsWord(text[i + 1], unit) THEN Some(text[i].v)
    ELSE FirstWithUnit(text, i + 1, unit)

RECURSIVE FirstWord(_, _, _)
FirstWord(text, i, w) ==
    IF i > Len(text) THEN 0
    ELSE IF IsWord(text[i], w) THEN i ELSE FirstWord(text, i + 1, w)

\* raw: the 'raw_response' text (reading it from None raises, see
\* agent_3_node); r'fragmentation.*?(\d+(?:\.\d+)?)\s*%' and
\* r'deflection.*?(\d+(?:,\d+)*(?:\.\d+)?)\s*km'
_extract_metric(raw, metric_type, default) ==
    LET keyword == IF metric_type = "fragmentation" THEN "FRAGMENTATION"
                   ELSE "DEFLECTION"
        unit == IF metric_type = "fragmentation" THEN "%" ELSE "KM"
        start == FirstWord(raw, 1, keyword)
        match == IF start = 0 THEN None ELSE FirstWithUnit(raw, start + 1, unit)
    IN  Get(match, default)

\* the safety evaluation written by the except branch
Agent3Default ==
    [verdict |-> "APPROVE", feedback |-> None, error |-> TRUE,
     fragmentation_risk_pct |-> None, miss_distance_km |-> None,
     confidence_score |-> None]

Agent3Evaluation(response, success_probability) ==
    LET verdict == _parse_decision(response)
    IN  [verdict |-> IF verdict = "APPROVED" THEN "APPROVE" ELSE "REJECT",
         feedback |-> IF verdict # "APPROVED" THEN response ELSE None,
         error |-> FALSE,
         fragmentation_risk_pct |->
             Some(_extract_metric(response[1], "fragmentation", 50)),
         miss_distance_km |->
             Some(_extract_metric(response[1], "deflection", 15000)),
         confidence_score |-> Some(success_probability)]

\* the subscriber lists after subscribe(topic, callback) has run to its end
Subscribed(subs, topic, callback) ==
    [subs EXCEPT ![topic] = Some(Append(Get(@, <<>>), callback))]

\* quantum_result is None (no Strategy stage has succeeded): the read of
\* quantum_result.get before the try block raises out of the node, and
\* graph.invoke and run_aegis_workflow raise with it
agent_3_crash ==
    /\ pc = "agent_3"
    /\ last_step' = Step("agent_3", "crashed")
    /\ ~IsSet(quantum_result)
    /\ pc' = "RAISED"
    /\ UNCHANGED <<rejects, config, asteroid_data, threat_assessment,
                   simulation_candidates, quantum_result, safety_evaluation,
                   iteration_count, workflow_status, execution_log, error,
                   selection_vars, bus_vars, db_vars, adv_vars,
                   tool_vars, json_vars>>
    /\ published' = <<>>
    /\ UNCHANGED hints
    /\ executions' = [executions EXCEPT !.agent_3 = @ + 1]

\* SafetyValidator() raises before it subscribes _on_plan, or it is
\* constructed and validate_solution raises
agent_3_raise ==
    /\ pc = "agent_3"
    /\ last_step' = Step("agent_3", "raised")
    /\ IsSet(quantum_result)
    /\ error' = Some("agent_3")
    /\ safety_evaluation' = Some(Agent3Default)
    /\ pc' = "route_after_agent_3"
    /\ UNCHANGED <<rejects, config, asteroid_data, threat_assessment,
                   simulation_candidates, quantum_result, iteration_count,
                   workflow_status, execution_log,
                   selection_vars, bus_rest, db_vars, adv_vars,
                   tool_vars, json_vars>>
    /\ published' = <<>>
    /\ UNCHANGED hints
    /\ executions' = [executions EXCEPT !.agent_3 = @ + 1]
    /\ \E constructed \in BOOLEAN :
         _subscribers' = IF constructed
                         THEN Subscribed(_subscribers, "agent_2/plan",
                                         "_on_plan")
                         ELSE _subscribers

\* f'SAFETY_{verdict}'
SafetyAction(verdict) ==
    CASE verdict = "APPROVED" -> "SAFETY_APPROVED"
      [] verdict = "REJECTED" -> "SAFETY_REJECTED"
      [] verdict = "ERROR" -> "SAFETY_ERROR"
      [] OTHER -> "SAFETY_UNKNOWN"

\* validate_solution returns.  With no final answer raw_response is None and
\* _extract_metric raises on raw.lower(); db.insert_log may raise after the
\* evaluation and the log entry were written.  Both land in the except branch.
agent_3_answer ==
    /\ pc = "agent_3"
    /\ IsSet(quantum_result)
    /\ \E response \in ValidatorResponses, db_ok \in BOOLEAN :
         LET verdict == _parse_decision(response)
         IN  IF ~IsSet(response)
             THEN /\ safety_evaluation' = Some(Agent3Default)
                  /\ error' = Some("agent_3")
                  /\ execution_log' = execution_log
                  /\ last_step' = Step("agent_3", "no_answer")
                  /\ rejects' = rejects
             ELSE /\ execution_log' = add_log_entry(execution_log, "agent_3",
                                                    SafetyAction(verdict))
                  /\ IF db_ok
                     THEN /\ safety_evaluation' =
                                Some(Agent3Evaluation(response,
                                        quantum_result[1].success_probability))
                          /\ error' = error
                          /\ last_step' = Step("agent_3",
                                 IF verdict = "APPROVED" THEN "APPROVE"
                                 ELSE "REJECT")
                          /\ rejects' = IF verdict = "APPROVED" THEN rejects
                                        ELSE rejects + 1
                     ELSE /\ safety_evaluation' = Some(Agent3Default)
                          /\ error' = Some("agent_3_db")
                          /\ last_step' = Step("agent_3", "db_failed")
                          /\ rejects' = rejects
    /\ pc' = "route_after_agent_3"
    /\ UNCHANGED <<config, asteroid_data, threat_assessment,
                   simulation_candidates, quantum_result, iteration_count,
                   workflow_status,
                   selection_vars, bus_rest, db_vars, adv_vars,
                   tool_vars, json_vars>>
    /\ published' = IF last_step'.outcome \in {"APPROVE", "REJECT"}
                    THEN <<"agent_3/safety">> ELSE <<>>
    /\ UNCHANGED hints
    /\ executions' = [executions EXCEPT !.agent_3 = @ + 1]
    /\ _subscribers' = Subscribed(_subscribers, "agent_2/plan", "_on_plan")

agent_3_node == agent_3_crash \/ agent_3_raise \/ agent_3_answer

----------------------------------------------------------------------------
(* orchestrator.py: route_after_agent_3, final_decision_node,              *)
(* human_escalation_node                                                   *)

\* safety.get('verdict', 'REJECT')
RoutedVerdict ==
    IF IsSet(safety_evaluation) THEN safety_evaluation[1].verdict ELSE "REJECT"

\* a routing that allows one retry too many
RouteAfterAgent3_OneMoreRetry(verdict, iteration, max_iter) ==
    IF verdict = "APPROVE"
    THEN [next |-> "final_decision", iteration_count |-> iteration]
    ELSE IF iteration <= max_iter
    THEN [next |-> "agent_2", iteration_count |-> iteration + 1]
    ELSE [next |-> "human_escalation", iteration_count |-> iteration]

\* a routing that counts the escalated verdict as an iteration too
RouteAfterAgent3_CountEscalation(verdict, iteration, max_iter) ==
    IF verdict = "APPROVE"
    THEN [next |-> "final_decision", iteration_count |-> iteration]
    ELSE IF iteration < max_iter
    THEN [next |-> "agent_2", iteration_count |-> iteration + 1]
    ELSE [next |-> "human_escalation", iteration_count |-> iteration + 1]

\* a routing that sends an exhausted REJECT to the final decision
RouteAfterAgent3_FinalWhenExhausted(verdict, iteration, max_iter) ==
    IF verdict = "APPROVE"
    THEN [next |-> "final_decision", iteration_count |-> iteration]
    ELSE IF iteration < max_iter
    THEN [next |-> "agent_2", iteration_count |-> iteration + 1]
    ELSE [next |-> "final_decision", iteration_count |-> iteration]

\* a routing that counts an approved verdict as an iteration
RouteAfterAgent3_CountApprove(verdict, iteration, max_iter) ==
    IF verdict = "APPROVE"
    THEN [next |-> "final_decision", iteration_count |-> iteration + 1]
    ELSE IF iteration < max_iter
    THEN [next |-> "agent_2", iteration_count |-> iteration + 1]
    ELSE [next |-> "human_escalation", iteration_count |-> iteration]

\* the edge the routing function returns and the iteration counter it
\* leaves in aegis_state
RouteAfterAgent3(verdict, iteration, max_iter) ==
    IF verdict = "APPROVE"
    THEN [next |-> "final_decision", iteration_count |-> iteration]
    ELSE IF iteration < max_iter
    THEN [next |-> "agent_2", iteration_count |-> iteration + 1]
    ELSE [next |-> "human_escalation", iteration_count |-> iteration]

route_after_agent_3 ==
    /\ pc = "route_after_agent_3"
    /\ LET route == RouteAfterAgent3(RoutedVerdict, iteration_count,
                                     config.max_iterations)
       IN  /\ pc' = route.next
           /\ iteration_count' = route.iteration_count
           /\ last_step' = Step("route_after_agent_3", route.next)
    /\ UNCHANGED <<rejects, config, asteroid_data, threat_assessment,
                   simulation_candidates, quantum_result, safety_evaluation,
                   workflow_status, execution_log, error,
                   selection_vars, bus_vars, db_vars, adv_vars,
                   tool_vars, json_vars>>
    /\ UNCHANGED <<published, hints>>
    /\ UNCHANGED executions

final_decision_node ==
    /\ pc = "final_decision"
    /\ last_step' = Step("final_decision", "done")
    /\ workflow_status' = "COMPLETED"
    /\ execution_log' = add_log_entry(execution_log, "orchestrator",
                                      "WORKFLOW_COMPLETED")
    /\ pc' = "END"
    /\ UNCHANGED <<rejects, config, asteroid_data, threat_assessment,
                   simulation_candidates, quantum_result, safety_evaluation,
                   iteration_count, error,
                   selection_vars, bus_vars, db_vars, adv_vars,
                   tool_vars, json_vars>>
    /\ published' = <<>>
    /\ UNCHANGED hints
    /\ UNCHANGED executions

human_escalation_node ==
    /\ pc = "human_escalation"
    /\ last_step' = Step("human_escalation", "done")
    /\ workflow_status' = "ESCALATED"
    /\ execution_log' = add_log_entry(execution_log, "orchestrator",
                                      "ESCALATED_TO_HUMANS")
    /\ pc' = "END"
    /\ UNCHANGED <<rejects, config, asteroid_data, threat_assessment,
                   simulation_candidates, quantum_result, safety_evaluation,
                   iteration_count, error,
                   selection_vars, bus_vars, db_vars, adv_vars,
                   tool_vars, json_vars>>
    /\ published' = <<>>
    /\ UNCHANGED hints
    /\ UNCHANGED executions

----------------------------------------------------------------------------
(* orchestrator.py: build_aegis_graph and run_aegis_workflow.  pc = "END"  *)
(* is the state run_aegis_workflow returns, pc = "RAISED" a run that       *)
(* raised instead of returning.                                            *)

Next ==
    \/ agent_1_node
    \/ route_after_agent_1
    \/ agent_2_node
    \/ agent_3_node
    \/ route_after_agent_3
    \/ final_decision_node
    \/ human_escalation_node

Spec == Init /\ [][Next]_vars

\* graph.invoke runs the graph to its end: a node or routing function that
\* can run does run
SpecLive == Spec /\ WF_vars(Next)

----------------------------------------------------------------------------
(* Antigravity-AgenticAIs copy/shared/quantum_integration.py: the          *)
(* selection engine with the amplification (Grover) mode.  Its             *)
(* _calculate_candidate_score and _run_classical_fallback are the ones     *)
(* defined above.                                                          *)

NQubits == 4
Shots == 2048

\* max(1, round(math.pi / 4 * math.sqrt(2 ** n_qubits))) = round(3.14...)
GroverIterations == 3

BasisStates == 0..(2^NQubits - 1)

\* the value qubit i holds in basis state s (Qiskit numbers qubits from the
\* least significant bit)
Bit(s, i) == (s \div 2^i) % 2

\* format(n, '04b'): the most significant bit first.  It is also the key
\* get_counts gives basis state n (measure_all: qubit n_qubits-1 leftmost).
Format04b(n) == [k \in 1..NQubits |-> Bit(n, NQubits - k)]

\* bits[::-1]
Reverse(bits) == [k \in 1..Len(bits) |-> bits[Len(bits) + 1 - k]]

\* int(bits, 2)
RECURSIVE ParseBinary(_, _, _)
ParseBinary(bits, k, acc) ==
    IF k > Len(bits) THEN acc ELSE ParseBinary(bits, k + 1, 2 * acc + bits[k])

\* sum(f[lo..hi]), by halves
RECURSIVE SumRange(_, _, _)
SumRange(f, lo, hi) ==
    IF lo = hi THEN f[lo]
    ELSE LET mid == (lo + hi) \div 2
         IN  SumRange(f, lo, mid) + SumRange(f, mid + 1, hi)

Sum(f) == SumRange(f, 0, 2^NQubits - 1)

\* the function f over the basis states lo..hi, tabulated by halves
RECURSIVE TabulateRange(_, _, _)
TabulateRange(f, lo, hi) ==
    IF lo = hi THEN (lo :> f[lo])
    ELSE LET mid == (lo + hi) \div 2
         IN  TabulateRange(f, lo, mid) @@ TabulateRange(f, mid + 1, hi)

Tabulate(f) == TabulateRange(f, 0, 2^NQubits - 1)

\* build_oracle: X on qubit i where target_bin[i] is '0', a phase flip of
\* |1111>, and the same X gates again: the phase of basis state s is flipped
\* exactly when every qubit is 1 between the X layers
OracleMarks(s, target_index) ==
    LET target_bin == Reverse(Format04b(target_index))
    IN  \A i \in 0..(NQubits - 1) :
            (IF target_bin[i + 1] = 0 THEN 1 - Bit(s, i) ELSE Bit(s, i)) = 1

build_oracle(amp, target_index) ==
    [s \in BasisStates |->
        IF OracleMarks(s, target_index) THEN -amp[s] ELSE amp[s]]

\* build_diffuser: H X (phase flip of |1111>) X H is I - 2|s><s|, which
\* takes a to a - 2 * mean = (8a - sum) / 8; the result is in units one
\* eighth of the argument's
build_diffuser(amp) ==
    [s \in BasisStates |-> 8 * amp[s] - Sum(amp)]

\* the amplitudes after n Grover iterations on the uniform superposition
RECURSIVE GroverAmplitudes(_, _)
GroverAmplitudes(target_index, n) ==
    IF n = 0 THEN [s \in BasisStates |-> 1]
    ELSE LET marked == Tabulate(build_oracle(
                           GroverAmplitudes(target_index, n - 1),
                           target_index))
         IN  Tabulate(build_diffuser(marked))

\* result.get_counts() of the 2048 shots, taken as the expected counts
\* shots * amp^2 / norm.  The norm after n iterations is 16 * 64^n, a
\* multiple of the number of shots for n >= 2; it is divided first to stay
\* within 32 bits.
MeasurementCounts(amp) ==
    LET norm == Sum([s \in BasisStates |-> amp[s] * amp[s]])
    IN  Tabulate([s \in BasisStates |->
                      (amp[s] * amp[s]) \div (norm \div Shots)])

\* max(counts, key=counts.get): the basis state of the most measured key
MostMeasured(counts) ==
    CHOOSE s \in BasisStates : \A t \in BasisStates : counts[s] >= counts[t]

\* raised: no valid candidate (ValueError).  success_probability in
\* hundredths, quantum_advantage in tenths; the returned dict has no
\* 'is_classical_fallback' key, kept here as FALSE.
_run_real_quantum(candidates) ==
    IF ~HasValid(candidates) THEN [raised |-> TRUE, result |-> None]
    ELSE LET best_idx == BestValidIndex(candidates)
             amp == GroverAmplitudes(best_idx, GroverIterations)
             counts == MeasurementCounts(amp)
             measured_state == Format04b(MostMeasured(counts))
             measured_index == ParseBinary(Reverse(measured_state), 1, 0)
         IN  [raised |-> FALSE,
              result |->
                Some([optimal_index |-> measured_index,
                      success_probability |->
                          (100 * counts[MostMeasured(counts)]) \div Shots,
                      qubits_used |-> NQubits,
                      iterations |-> GroverIterations,
                      quantum_advantage |->
                          160 \div Max(1, GroverIterations),
                      is_classical_fallback |-> FALSE])]

\* run_quantum_optimization of this copy.  has_c: oracle_constraints is
\* neither None nor empty; qiskit_ok: the imports of
\* _run_real_quantum succeed; any exception of _run_real_quantum selects the
\* classical fallback.  The result carries the winning candidate.
grover_run_quantum_optimization(candidates, has_c, constraints, qiskit_ok) ==
    IF Len(candidates) # NumCandidates
    THEN [raised |-> TRUE, candidates |-> candidates, result |-> None]
    ELSE LET filled == WithDefaults(candidates, has_c, constraints)
             real == IF qiskit_ok THEN _run_real_quantum(filled)
                     ELSE [raised |-> TRUE, result |-> None]
             result == IF real.raised THEN _run_classical_fallback(filled)
                       ELSE real.result[1]
         IN  [raised |-> FALSE, candidates |-> filled,
              result |-> Some([selected |-> result,
                               optimal_candidate |->
                                   filled[result.optimal_index + 1]])]

\* a candidate as a caller passes it: score and validity may be missing
Candidate(score, validity) ==
    [id |-> None, velocity_km_s |-> Some(100), angle_degrees |-> Some(30),
     estimated_fuel_kg |-> Some(3000), score |-> score, validity |-> validity,
     strategy |-> "kinetic"]

\* the candidate sets the model distinguishes: two candidates of interest at
\* positions a and b among invalid low-score ones, and a set that is one
\* candidate short
SelectionInputs ==
    { [k \in 1..NumCandidates |->
          IF k = a + 1 THEN Candidate(Some(sa), Some(va))
          ELSE IF k = b + 1 THEN Candidate(sb, vb)
          ELSE Candidate(Some(1), Some(FALSE))] :
      a \in 0..(NumCandidates - 1), b \in 0..(NumCandidates - 1),
      sa \in {3, 9}, va \in BOOLEAN,
      sb \in {Some(3), None}, vb \in {Some(FALSE), None} }
    \cup { [k \in 1..(NumCandidates - 1) |-> Candidate(Some(3), Some(TRUE))] }

\* no workflow run is in progress
WorkflowIdle ==
    /\ pc = "idle"
    /\ config = [max_iterations |-> DefaultMaxIterations,
                 risk_threshold |-> DefaultRiskThreshold]
    /\ asteroid_data = [impact_probability |-> 2, diameter_m |-> 100]
    /\ threat_assessment = None
    /\ simulation_candidates = None
    /\ quantum_result = None
    /\ safety_evaluation = None
    /\ iteration_count = 0
    /\ workflow_status = "IN_PROGRESS"
    /\ execution_log = <<>>
    /\ error = None
    /\ last_step = Step("start", "done")
    /\ rejects = 0
    /\ published = <<>>
    /\ hints = NoHints
    /\ executions = NoExecutions

\* a candidate that carries an id
IdCandidate(id, score, validity) ==
    [Candidate(score, validity) EXCEPT !.id = Some(id)]

\* candidate sets with ids: the candidate at position p carries id 0 (p = 1
\* is the set with ids 0..15, any other p repeats id 0)
IdentifiedInputs ==
    { [k \in 1..NumCandidates |->
          IdCandidate(IF k = p THEN 0 ELSE k - 1, Some(5), Some(TRUE))] :
      p \in {1, 2, NumCandidates} }

\* result.get('candidates', []) of a plan: n raw candidates, none of which
\* the selection engine has seen
RawList(n, v) == [k \in 1..n |-> RawCandidate(v + 5 * k, 30, 3000)]

RawInputs == { RawList(n, v) : n \in 0..MaxRawLen, v \in {40, 120} }

Engines == {"classical", "grover"}

InitSelect ==
    /\ WorkflowIdle
    /\ BusIdle
    /\ DbIdle
    /\ AdvisoryIdle
    /\ ToolIdle
    /\ JsonIdle
    /\ qi_engine \in Engines
    /\ qi_qiskit \in (IF qi_engine = "grover" THEN BOOLEAN ELSE {FALSE})
    /\ \/ /\ qi_pc = "called"
          /\ qi_raw = None
          /\ qi_candidates \in SelectionInputs \cup IdentifiedInputs
       \/ /\ qi_pc = "raw"
          /\ qi_raw \in { Some(raw) : raw \in RawInputs }
          /\ qi_candidates = <<>>
    /\ qi_result = None
    /\ qi_input = <<>>
    /\ qi_calls = 0
    /\ qi_previous = None

\* agent_2_node between the plan and the call of the engine: the raw
\* candidates are generated if the plan has none, then prepared
strategy_prepare ==
    /\ qi_pc = "raw"
    /\ \E jitter \in Jitters :
       \E prepared \in
            {prepare_candidates_for_quantum(
                 IF Len(qi_raw[1]) = 0
                 THEN _generate_simulation_candidates(None, jitter)
                 ELSE qi_raw[1],
                 Constraints)} :
         qi_candidates' = prepared
    /\ qi_pc' = "called"
    /\ UNCHANGED <<qi_result, qi_engine, qi_qiskit, qi_raw, qi_input, qi_calls,
                   qi_previous>>
    /\ UNCHANGED <<workflow_vars, bus_vars, db_vars, adv_vars, tool_vars, json_vars>>

\* the caller may call, or call again with the list the last call left
CanCall ==
    \/ qi_pc = "called"
    \/ qi_pc = "returned" /\ qi_calls < MaxCalls

\* what a call leaves behind.  run: raised, candidates (the list after the
\* call), result (the returned dict)
AfterCall(run) ==
    /\ qi_input' = IF qi_calls = 0 THEN qi_candidates ELSE qi_input
    /\ qi_previous' = qi_result
    /\ qi_candidates' = run.candidates
    /\ qi_result' = run.result
    /\ qi_calls' = qi_calls + 1
    /\ qi_pc' = IF run.raised THEN "raised" ELSE "returned"
    /\ UNCHANGED <<qi_engine, qi_qiskit, qi_raw>>
    /\ UNCHANGED <<workflow_vars, bus_vars, db_vars, adv_vars, tool_vars, json_vars>>

\* one call of the Antigravity copy's run_quantum_optimization: with
\* oracle_constraints = None by a direct caller, with the constraints of
\* agent_2_node after the Strategy stage prepared the list
call_run_quantum_optimization ==
    /\ qi_engine = "grover"
    /\ CanCall
    /\ \E run \in {grover_run_quantum_optimization(qi_candidates,
                                                   IsSet(qi_raw), Constraints,
                                                   qi_qiskit)} :
         AfterCall(run)

\* AgenticAIs/shared/quantum_integration.py, run_quantum_optimization with
\* the winning candidate it adds to the returned dict
ClassicalCall(candidates, has_c, constraints) ==
    LET run == run_quantum_optimization(candidates, has_c, constraints)
    IN  IF run.raised THEN run
        ELSE [raised |-> FALSE, candidates |-> run.candidates,
              result |->
                Some([selected |-> run.result[1],
                      optimal_candidate |->
                          run.candidates[run.result[1].optimal_index + 1]])]

\* one call of the AgenticAIs run_quantum_optimization
call_classical_run_quantum_optimization ==
    /\ qi_engine = "classical"
    /\ CanCall
    /\ \E run \in {ClassicalCall(qi_candidates, IsSet(qi_raw), Constraints)} :
         AfterCall(run)

NextSelect ==
    \/ strategy_prepare
    \/ call_run_quantum_optimization
    \/ call_classical_run_quantum_optimization

SpecSelect == InitSelect /\ [][NextSelect]_vars

----------------------------------------------------------------------------
(* AgenticAIs/shared/messaging.py: the process-wide event bus, called by    *)
(* concurrent threads.  A callback is known by its identity; list.remove    *)
(* and the in test compare callbacks by equality.                           *)

\* callback in _subscribers[topic]
Contains(list, callback) == \E i \in 1..Len(list) : list[i] = callback

\* the position list.remove(callback) deletes: the first equal element
FirstIndex(list, callback) ==
    CHOOSE i \in 1..Len(list) :
        list[i] = callback /\ \A j \in 1..(i - 1) : list[j] # callback

\* list.remove(callback)
Remove(list, callback) ==
    LET i == FirstIndex(list, callback)
    IN  [k \in 1..(Len(list) - 1) |-> IF k < i THEN list[k] ELSE list[k + 1]]

\* what a callback does when it is called
\* a callback may itself call the bus: subscribe a callback to the topic it
\* was called for, or call an unsubscribe function
CallbackOutcomes ==
    {"returns", "raises Exception", "subscribes", "unsubscribes"}

\* publish without its try/except: the exception leaves the loop
Swallowed_NoHandler(outcome) == FALSE

\* try: cb(topic, payload) / except Exception: continue
Swallowed(outcome) == outcome = "raises Exception"

\* history: the callbacks whose subscribe call on the topic has appended and
\* whose unsubscribe function has not run, in the order they subscribed
InForce(topic) ==
    LET regs == SelectSeq(registrations,
                          LAMBDA r : r.topic = topic /\ r.active)
    IN  [i \in 1..Len(regs) |-> regs[i].callback]

\* a thread may start a call of the bus
MayCall(t) == bus_pc[t] = "idle" /\ bus_calls < MaxBusCalls

\* with _lock: the thread waits until the lock is free and takes it
Acquire(t) == _lock = None /\ _lock' = Some(t)

\* a thread enters a call: it takes the lock and goes to the first statement
Enter(t, at, frame) ==
    /\ MayCall(t)
    /\ Acquire(t)
    /\ bus_pc' = [bus_pc EXCEPT ![t] = at]
    /\ bus_frame' = [bus_frame EXCEPT ![t] = frame]
    /\ bus_calls' = bus_calls + 1

\* subscribe(topic, callback), up to the with statement
subscribe(t) ==
    /\ \E topic \in Topics, callback \in Callbacks :
         Enter(t, "subscribe_check",
               [topic |-> topic, callback |-> callback, handle |-> 0])
    /\ UNCHANGED <<_subscribers, listeners, invoked, raised_at, registrations,
                   expected, bus_last>>
    /\ UNCHANGED <<workflow_vars, selection_vars, db_vars, adv_vars, tool_vars, json_vars>>

\* if topic not in _subscribers: _subscribers[topic] = []
subscribe_check(t) ==
    /\ bus_pc[t] = "subscribe_check"
    /\ _subscribers' =
         IF IsSet(_subscribers[bus_frame[t].topic]) THEN _subscribers
         ELSE [_subscribers EXCEPT ![bus_frame[t].topic] = Some(<<>>)]
    /\ bus_pc' = [bus_pc EXCEPT ![t] = "subscribe_append"]
    /\ UNCHANGED <<_lock, bus_frame, listeners, invoked, raised_at,
                   registrations, expected, bus_last, bus_calls>>
    /\ UNCHANGED <<workflow_vars, selection_vars, db_vars, adv_vars, tool_vars, json_vars>>

\* _subscribers[topic].append(callback), the end of the with block and
\* return unsubscribe; the handle is the position in registrations
subscribe_append(t) ==
    /\ bus_pc[t] = "subscribe_append"
    /\ _subscribers' =
         [_subscribers EXCEPT ![bus_frame[t].topic] =
             Some(Append(Get(@, <<>>), bus_frame[t].callback))]
    /\ registrations' =
         Append(registrations,
                [topic |-> bus_frame[t].topic,
                 callback |-> bus_frame[t].callback, active |-> TRUE])
    /\ _lock' = None
    /\ bus_pc' = [bus_pc EXCEPT ![t] = "idle"]
    /\ bus_frame' = [bus_frame EXCEPT ![t] = NoFrame]
    /\ bus_last' = [bus_last EXCEPT ![t] = "subscribe"]
    /\ UNCHANGED <<listeners, invoked, raised_at, expected, bus_calls>>
    /\ UNCHANGED <<workflow_vars, selection_vars, db_vars, adv_vars, tool_vars, json_vars>>

\* a call of an unsubscribe function that some subscribe call returned, up
\* to the with statement; the closure holds topic and callback
unsubscribe(t) ==
    /\ \E handle \in 1..Len(registrations) :
         Enter(t, "unsubscribe_remove",
               [topic |-> registrations[handle].topic,
                callback |-> registrations[handle].callback,
                handle |-> handle])
    /\ UNCHANGED <<_subscribers, listeners, invoked, raised_at, registrations,
                   expected, bus_last>>
    /\ UNCHANGED <<workflow_vars, selection_vars, db_vars, adv_vars, tool_vars, json_vars>>

\* if topic in _subscribers and callback in _subscribers[topic]:
\*     _subscribers[topic].remove(callback)
\* and the end of the with block
unsubscribe_remove(t) ==
    /\ bus_pc[t] = "unsubscribe_remove"
    /\ _subscribers' =
         IF /\ IsSet(_subscribers[bus_frame[t].topic])
            /\ Contains(_subscribers[bus_frame[t].topic][1],
                        bus_frame[t].callback)
         THEN [_subscribers EXCEPT ![bus_frame[t].topic] =
                  Some(Remove(@[1], bus_frame[t].callback))]
         ELSE _subscribers
    /\ registrations' =
         [registrations EXCEPT ![bus_frame[t].handle].active = FALSE]
    /\ _lock' = None
    /\ bus_pc' = [bus_pc EXCEPT ![t] = "idle"]
    /\ bus_frame' = [bus_frame EXCEPT ![t] = NoFrame]
    /\ bus_last' = [bus_last EXCEPT ![t] = "unsubscribe"]
    /\ UNCHANGED <<listeners, invoked, raised_at, expected, bus_calls>>
    /\ UNCHANGED <<workflow_vars, selection_vars, db_vars, adv_vars, tool_vars, json_vars>>

\* publish(topic, payload), up to the with statement
publish(t) ==
    /\ \E topic \in Topics :
         Enter(t, "publish_snapshot",
               [topic |-> topic, callback |-> "", handle |-> 0])
    /\ UNCHANGED <<_subscribers, listeners, invoked, raised_at, registrations,
                   expected, bus_last>>
    /\ UNCHANGED <<workflow_vars, selection_vars, db_vars, adv_vars, tool_vars, json_vars>>

\* listeners = list(_subscribers.get(topic, [])) and the end of the with
\* block
publish_snapshot(t) ==
    /\ bus_pc[t] = "publish_snapshot"
    /\ listeners' =
         [listeners EXCEPT ![t] = Get(_subscribers[bus_frame[t].topic], <<>>)]
    /\ expected' = [expected EXCEPT ![t] = InForce(bus_frame[t].topic)]
    /\ invoked' = [invoked EXCEPT ![t] = <<>>]
    /\ raised_at' = [raised_at EXCEPT ![t] = {}]
    /\ _lock' = None
    /\ bus_pc' = [bus_pc EXCEPT ![t] = "publish_deliver"]
    /\ UNCHANGED <<_subscribers, bus_frame, registrations, bus_last,
                   bus_calls>>
    /\ UNCHANGED <<workflow_vars, selection_vars, db_vars, adv_vars, tool_vars, json_vars>>

\* the subscriber lists after an unsubscribe function has run to its end
Unsubscribed(subs, topic, callback) ==
    IF IsSet(subs[topic]) /\ Contains(subs[topic][1], callback)
    THEN [subs EXCEPT ![topic] = Some(Remove(@[1], callback))]
    ELSE subs

\* a loop over the live list of the topic instead of the copy
NextCallback_Live(t) ==
    LET live == Get(_subscribers[bus_frame[t].topic], <<>>)
    IN  IF Len(invoked[t]) < Len(live) THEN live[Len(invoked[t]) + 1]
        ELSE listeners[t][Len(invoked[t]) + 1]

\* for cb in listeners: the next element of the copy publish took
NextCallback(t) == listeners[t][Len(invoked[t]) + 1]

\* one iteration of for cb in listeners: the callback is called, and an
\* exception the handler does not swallow ends publish.  A callback that
\* calls the bus runs the call in the publisher's thread: it waits for the
\* lock and its with block runs to the end.
publish_invoke(t) ==
    /\ bus_pc[t] = "publish_deliver"
    /\ Len(invoked[t]) < Len(listeners[t])
    /\ invoked' = [invoked EXCEPT ![t] = Append(@, NextCallback(t))]
    /\ \E outcome \in CallbackOutcomes :
         /\ raised_at' =
              [raised_at EXCEPT ![t] =
                  IF outcome = "raises Exception"
                  THEN @ \cup {Len(invoked[t]) + 1} ELSE @]
         /\ IF outcome # "raises Exception" \/ Swallowed(outcome)
            THEN UNCHANGED <<bus_pc, bus_frame, bus_last>>
            ELSE /\ bus_pc' = [bus_pc EXCEPT ![t] = "idle"]
                 /\ bus_frame' = [bus_frame EXCEPT ![t] = NoFrame]
                 /\ bus_last' = [bus_last EXCEPT ![t] = "publish raised"]
         /\ CASE outcome = "subscribes" ->
                   /\ _lock = None
                   /\ bus_calls < MaxBusCalls
                   /\ bus_calls' = bus_calls + 1
                   /\ \E callback \in Callbacks :
                        /\ _subscribers' =
                             Subscribed(_subscribers, bus_frame[t].topic,
                                        callback)
                        /\ registrations' =
                             Append(registrations,
                                    [topic |-> bus_frame[t].topic,
                                     callback |-> callback, active |-> TRUE])
              [] outcome = "unsubscribes" ->
                   /\ _lock = None
                   /\ bus_calls < MaxBusCalls
                   /\ bus_calls' = bus_calls + 1
                   /\ \E handle \in 1..Len(registrations) :
                        /\ _subscribers' =
                             Unsubscribed(_subscribers,
                                          registrations[handle].topic,
                                          registrations[handle].callback)
                        /\ registrations' =
                             [registrations EXCEPT ![handle].active = FALSE]
              [] OTHER -> UNCHANGED <<_subscribers, registrations, bus_calls>>
    /\ UNCHANGED <<_lock, listeners, expected>>
    /\ UNCHANGED <<workflow_vars, selection_vars, db_vars, adv_vars, tool_vars, json_vars>>

\* the loop is exhausted: publish returns
publish_return(t) ==
    /\ bus_pc[t] = "publish_deliver"
    /\ Len(invoked[t]) = Len(listeners[t])
    /\ bus_pc' = [bus_pc EXCEPT ![t] = "idle"]
    /\ bus_frame' = [bus_frame EXCEPT ![t] = NoFrame]
    /\ bus_last' = [bus_last EXCEPT ![t] = "publish"]
    /\ UNCHANGED <<_subscribers, _lock, listeners, invoked, raised_at,
                   registrations, expected, bus_calls>>
    /\ UNCHANGED <<workflow_vars, selection_vars, db_vars, adv_vars, tool_vars, json_vars>>

InitBus ==
    WorkflowIdle /\ SelectionIdle /\ BusIdle /\ DbIdle /\ AdvisoryIdle /\ ToolIdle /\ JsonIdle

NextBus ==
    \E t \in Threads :
        \/ subscribe(t)
        \/ subscribe_check(t)
        \/ subscribe_append(t)
        \/ unsubscribe(t)
        \/ unsubscribe_remove(t)
        \/ publish(t)
        \/ publish_snapshot(t)
        \/ publish_invoke(t)
        \/ publish_return(t)

SpecBus == InitBus /\ [][NextBus]_vars

----------------------------------------------------------------------------
(* Antigravity-AgenticAIs copy/shared/database.py: get_database and the     *)
(* InMemoryDatabase it constructs, called by concurrent runs.  No statement *)
(* of the module takes a lock, so the runs interleave between the reads and *)
(* writes of the global and of the instance's fields.                       *)

\* InMemoryDatabase.__init__: the agent_log counter and the agent_log store
NewInstance == [id_counter |-> 0, agent_logs |-> {}]

\* the AgentLog a run passes to its next insert_log, log_id = 0
NextLog(r) == [run |-> r, n |-> Len(db_inserted[r]) + 1]

\* self._agent_logs[log_id] = log on a dict: the entry of that key is replaced
SetItem(dict, key, value) ==
    { e \in dict : e.key # key } \cup { [key |-> key, value |-> value] }

\* get_database(), the test: if _database is None
get_database(r) ==
    /\ db_pc[r] = "idle"
    /\ db_pc' = [db_pc EXCEPT ![r] =
                    IF IsSet(_database) THEN "return" ELSE "construct"]
    /\ UNCHANGED <<_database, instances, db_local, db_inserted, db_inserts>>
    /\ UNCHANGED <<workflow_vars, selection_vars, bus_vars, adv_vars, tool_vars, json_vars>>

\* _database = InMemoryDatabase(); _database.connect()
get_database_construct(r) ==
    /\ db_pc[r] = "construct"
    /\ instances' = Append(instances, NewInstance)
    /\ _database' = Some(Len(instances) + 1)
    /\ db_pc' = [db_pc EXCEPT ![r] = "return"]
    /\ UNCHANGED <<db_local, db_inserted, db_inserts>>
    /\ UNCHANGED <<workflow_vars, selection_vars, bus_vars, adv_vars, tool_vars, json_vars>>

\* return _database: the run keeps the instance the global names now
get_database_return(r) ==
    /\ db_pc[r] = "return"
    /\ db_local' = [db_local EXCEPT ![r].db = _database[1]]
    /\ db_pc' = [db_pc EXCEPT ![r] = "connected"]
    /\ UNCHANGED <<_database, instances, db_inserted, db_inserts>>
    /\ UNCHANGED <<workflow_vars, selection_vars, bus_vars, adv_vars, tool_vars, json_vars>>

\* insert_log(log) with log.log_id == 0, up to the read of
\* self._id_counters[table] in _next_id
insert_log(r) ==
    /\ db_pc[r] = "connected"
    /\ db_inserts < MaxInserts
    /\ db_local' =
         [db_local EXCEPT ![r].read = instances[db_local[r].db].id_counter]
    /\ db_pc' = [db_pc EXCEPT ![r] = "next_id_store"]
    /\ db_inserts' = db_inserts + 1
    /\ UNCHANGED <<_database, instances, db_inserted>>
    /\ UNCHANGED <<workflow_vars, selection_vars, bus_vars, adv_vars, tool_vars, json_vars>>

\* self._id_counters[table] += 1, the store of the value read plus one
next_id_store(r) ==
    /\ db_pc[r] = "next_id_store"
    /\ instances' =
         [instances EXCEPT ![db_local[r].db].id_counter = db_local[r].read + 1]
    /\ db_pc' = [db_pc EXCEPT ![r] = "next_id_return"]
    /\ UNCHANGED <<_database, db_local, db_inserted, db_inserts>>
    /\ UNCHANGED <<workflow_vars, selection_vars, bus_vars, adv_vars, tool_vars, json_vars>>

\* return self._id_counters[table], assigned to log.log_id
next_id_return(r) ==
    /\ db_pc[r] = "next_id_return"
    /\ db_local' =
         [db_local EXCEPT ![r].log_id = instances[db_local[r].db].id_counter]
    /\ db_pc' = [db_pc EXCEPT ![r] = "insert_store"]
    /\ UNCHANGED <<_database, instances, db_inserted, db_inserts>>
    /\ UNCHANGED <<workflow_vars, selection_vars, bus_vars, adv_vars, tool_vars, json_vars>>

\* self._agent_logs[log.log_id] = log; return log.log_id
insert_store(r) ==
    /\ db_pc[r] = "insert_store"
    /\ instances' =
         [instances EXCEPT ![db_local[r].db].agent_logs =
             SetItem(@, db_local[r].log_id, NextLog(r))]
    /\ db_inserted' = [db_inserted EXCEPT ![r] = Append(@, db_local[r].log_id)]
    /\ db_pc' = [db_pc EXCEPT ![r] = "connected"]
    /\ UNCHANGED <<_database, db_local, db_inserts>>
    /\ UNCHANGED <<workflow_vars, selection_vars, bus_vars, adv_vars, tool_vars, json_vars>>

InitDb ==
    WorkflowIdle /\ SelectionIdle /\ BusIdle /\ DbIdle /\ AdvisoryIdle /\ ToolIdle /\ JsonIdle

NextDb ==
    \E r \in Runs :
        \/ get_database(r)
        \/ get_database_construct(r)
        \/ get_database_return(r)
        \/ insert_log(r)
        \/ next_id_store(r)
        \/ next_id_return(r)
        \/ insert_store(r)

SpecDb == InitDb /\ [][NextDb]_vars

----------------------------------------------------------------------------
(* AgenticAIs/Agent-1/agent_1_database_intel.py: Agent1.query runs the      *)
(* graph agent -> tools -> agent ...; the agent node is _call_agent, which  *)
(* invokes the reasoning service in a retry loop.  A message is known by    *)
(* its kind, an error message is a sequence of words.                       *)

\* state["messages"] as query, chat or another caller of the graph builds it
GraphInputs == { <<>>, <<"human">>, <<"system", "human">> }

\* str(e) of the failures of llm_with_tools.invoke the model distinguishes
ServiceErrors ==
    { <<"429", "quota">>, <<"RESOURCE_EXHAUSTED">>, <<"500", "internal">>,
      <<"timeout">> }

\* what one llm_with_tools.invoke does: an answer, an answer that asks for
\* tools, or an exception
ServiceOutcomes ==
    { [kind |-> k, error |-> <<>>] : k \in {"answer", "tool_calls"} }
    \cup { [kind |-> "error", error |-> e] : e \in ServiceErrors }

\* a handler that takes every failure for a rate limit
RateLimited_Any(error_str) == TRUE

\* "429" in error_str or "RESOURCE_EXHAUSTED" in error_str
RateLimited(error_str) ==
    Contains(error_str, "429") \/ Contains(error_str, "RESOURCE_EXHAUSTED")

\* a loop that never runs out of attempts
LoopContinues_Forever(i) == TRUE

\* for attempt in range(max_retries): there is an iteration after attempt i
LoopContinues(i) == i + 1 < MaxRetries

\* the messages _call_agent sends: "Hello" for an empty list, the system
\* prompt in front if no system message is present
Prepared_messages(msgs) ==
    LET some == IF Len(msgs) = 0 THEN <<"human">> ELSE msgs
    IN  IF \E i \in 1..Len(some) : some[i] = "system" THEN some
        ELSE <<"system">> \o some

\* _call_agent up to the for statement
call_agent ==
    /\ llm_pc = "call_agent"
    /\ messages' = Prepared_messages(messages)
    /\ attempt' = 0
    /\ llm_history' = <<>>
    /\ llm_clock' = 0
    /\ llm_rounds' = llm_rounds + 1
    /\ llm_pc' = "invoke"
    /\ UNCHANGED llm_error
    /\ UNCHANGED <<workflow_vars, selection_vars, bus_vars, db_vars, tool_vars, json_vars>>

\* response = self.llm_with_tools.invoke(messages) and what follows it: the
\* return, or the except branch up to time.sleep or raise
invoke ==
    /\ llm_pc = "invoke"
    /\ \E outcome \in ServiceOutcomes :
         /\ outcome.kind = "tool_calls" => llm_rounds <= MaxToolRounds
         /\ llm_history' =
              Append(llm_history,
                     [outcome |-> outcome, attempt |-> attempt,
                      at |-> llm_clock])
         /\ IF outcome.kind # "error"
            THEN /\ messages' = Append(messages, outcome.kind)
                 /\ llm_pc' = "returned"
                 /\ UNCHANGED llm_error
            ELSE IF RateLimited(outcome.error)
            THEN /\ llm_pc' = "sleep"
                 /\ UNCHANGED <<messages, llm_error>>
            ELSE /\ llm_pc' = "raised"
                 /\ llm_error' = Some(outcome.error)
                 /\ UNCHANGED messages
    /\ UNCHANGED <<attempt, llm_clock, llm_rounds>>
    /\ UNCHANGED <<workflow_vars, selection_vars, bus_vars, db_vars, tool_vars, json_vars>>

\* time.sleep(wait_time), then the next iteration of the loop or, after the
\* last one, raise Exception("Failed after 3 retries due to rate limiting")
sleep ==
    /\ llm_pc = "sleep"
    /\ llm_clock' = llm_clock + API_REQUEST_DELAY
    /\ IF LoopContinues(attempt)
       THEN /\ attempt' = attempt + 1
            /\ llm_pc' = "invoke"
            /\ UNCHANGED llm_error
       ELSE /\ llm_pc' = "raised"
            /\ llm_error' = Some(<<"Failed", "after", "retries">>)
            /\ UNCHANGED attempt
    /\ UNCHANGED <<messages, llm_history, llm_rounds>>
    /\ UNCHANGED <<workflow_vars, selection_vars, bus_vars, db_vars, tool_vars, json_vars>>

\* _should_continue: to the tools if the last message has tool calls
should_continue ==
    /\ llm_pc = "returned"
    /\ llm_pc' = IF messages[Len(messages)] = "tool_calls" THEN "tools"
                 ELSE "END"
    /\ UNCHANGED <<messages, attempt, llm_history, llm_clock, llm_rounds,
                   llm_error>>
    /\ UNCHANGED <<workflow_vars, selection_vars, bus_vars, db_vars, tool_vars, json_vars>>

\* the tool node answers and the graph goes back to the agent node
tools ==
    /\ llm_pc = "tools"
    /\ messages' = Append(messages, "tool")
    /\ llm_pc' = "call_agent"
    /\ UNCHANGED <<attempt, llm_history, llm_clock, llm_rounds, llm_error>>
    /\ UNCHANGED <<workflow_vars, selection_vars, bus_vars, db_vars, tool_vars, json_vars>>

InitAdvisory ==
    /\ WorkflowIdle /\ SelectionIdle /\ BusIdle /\ DbIdle /\ ToolIdle /\ JsonIdle
    /\ llm_pc = "call_agent"
    /\ messages \in GraphInputs
    /\ attempt = 0
    /\ llm_history = <<>>
    /\ llm_clock = 0
    /\ llm_rounds = 0
    /\ llm_error = None

NextAdvisory == call_agent \/ invoke \/ sleep \/ should_continue \/ tools

SpecAdvisory == InitAdvisory /\ [][NextAdvisory]_vars

----------------------------------------------------------------------------
(* Antigravity-AgenticAIs copy/Agent-3/tools/safety_tools.py:               *)
(* evaluate_safety_score, called as a tool with the figures the validator   *)
(* passes.  Percentages and distances are whole numbers, the confidence is  *)
(* kept in hundredths (0.70 is 70).                                         *)

\* the figures a call may carry, with the values around each threshold
FragmentationInputs == {0, 79, 80, 99, 100, 101, 150}
DeflectionInputs == {0, 9999, 10000, 10001, 14999, 15000}
ConfidenceInputs == {0, 69, 70, 71, 84, 85, 100}

\* round(len(checks_passed) / total_checks, 2), in hundredths
RoundedScore(passed, total) == (200 * passed + total) \div (2 * total)

evaluate_safety_score(fragmentation_risk_pct, deflection_distance_km, quantum_confidence) ==
    LET check_1 == fragmentation_risk_pct < 100
        check_2 == deflection_distance_km >= 10000
        check_3 == quantum_confidence >= 70
        passed_1 == IF check_1 THEN <<"FRAGMENTATION_SAFE">> ELSE <<>>
        failed_1 == IF check_1 THEN <<>> ELSE <<"FRAGMENTATION_CRITICAL">>
        reason_1 == IF check_1
                    THEN IF fragmentation_risk_pct < 80
                         THEN "well within safe limits"
                         ELSE "acceptable but marginal"
                    ELSE "exceeds 100% threshold"
        passed_2 == IF check_2 THEN <<"DEFLECTION_SUFFICIENT">> ELSE <<>>
        failed_2 == IF check_2 THEN <<>> ELSE <<"DEFLECTION_INSUFFICIENT">>
        reason_2 == IF check_2
                    THEN IF deflection_distance_km >= 15000
                         THEN "excellent safety margin"
                         ELSE "meets minimum requirement"
                    ELSE "below minimum"
        passed_3 == IF check_3 THEN <<"CONFIDENCE_HIGH">> ELSE <<>>
        failed_3 == IF check_3 THEN <<>> ELSE <<"CONFIDENCE_LOW">>
        reason_3 == IF check_3
                    THEN IF quantum_confidence >= 85
                         THEN "is high"
                         ELSE "exceeds 70% threshold"
                    ELSE "below 70% threshold"
        checks_passed == passed_1 \o passed_2 \o passed_3
        checks_failed == failed_1 \o failed_2 \o failed_3
        total_checks == Len(checks_passed) + Len(checks_failed)
        recommendation == IF Len(checks_failed) = 0 THEN "APPROVE"
                          ELSE "REJECT"
    IN  [safety_score |-> RoundedScore(Len(checks_passed), total_checks),
         recommendation |-> recommendation,
         checks_passed |-> checks_passed,
         checks_failed |-> checks_failed,
         reasoning |-> <<reason_1, reason_2, reason_3>>,
         final_decision |-> IF Len(checks_failed) = 0
                            THEN "cleared for execution"
                            ELSE "REJECTED",
         is_approved |-> recommendation = "APPROVE"]

\* the validator issues the tool call with its three figures
tool_call ==
    /\ st_pc = "idle"
    /\ \E f \in FragmentationInputs, d \in DeflectionInputs,
          c \in ConfidenceInputs :
         st_args' = [fragmentation_risk_pct |-> f,
                     deflection_distance_km |-> d,
                     quantum_confidence |-> c]
    /\ st_pc' = "called"
    /\ UNCHANGED <<st_result, workflow_vars, selection_vars, bus_vars,
                   db_vars, adv_vars, json_vars>>

\* the tool runs and returns its result
tool_return ==
    /\ st_pc = "called"
    /\ st_result' = Some(evaluate_safety_score(st_args.fragmentation_risk_pct,
                                               st_args.deflection_distance_km,
                                               st_args.quantum_confidence))
    /\ st_pc' = "returned"
    /\ UNCHANGED <<st_args, workflow_vars, selection_vars, bus_vars,
                   db_vars, adv_vars, json_vars>>

InitTool ==
    /\ WorkflowIdle
    /\ SelectionIdle
    /\ BusIdle
    /\ DbIdle
    /\ AdvisoryIdle
    /\ ToolIdle
    /\ JsonIdle

NextTool == tool_call \/ tool_return

SpecTool == InitTool /\ [][NextTool]_vars

----------------------------------------------------------------------------
(* Antigravity-AgenticAIs copy/run_aegis.py: main writes the state the run  *)
(* returned with json.dump(result, f, indent=2, default=str); a reader gets *)
(* it back with json.load.  A JSON value is known by its type and its text, *)
(* a number's text is its decimal digits.                                   *)

DigitChars == <<"0", "1", "2", "3", "4", "5", "6", "7", "8", "9">>

\* str(n) for a natural number
RECURSIVE Digits(_)
Digits(n) ==
    IF n < 10 THEN <<DigitChars[n + 1]>>
    ELSE Digits(n \div 10) \o <<DigitChars[(n % 10) + 1]>>

\* int(text) for a text of decimal digits
RECURSIVE ParseInt(_)
ParseInt(text) ==
    IF Len(text) = 0 THEN 0
    ELSE LET last == CHOOSE d \in 0..9 : DigitChars[d + 1] = text[Len(text)]
         IN  10 * ParseInt(SubSeq(text, 1, Len(text) - 1)) + last

\* an encoder that hands integers to default=str
JsonNumber_ViaDefault(n) == [type |-> "string", text |-> Digits(n)]

\* the encoder writes an int as a JSON number
JsonNumber(n) == [type |-> "number", text |-> Digits(n)]

\* json.dump of one value: str, int and None are encoded natively
JsonEncode(v) ==
    CASE v.py = "str" -> [type |-> "string", text |-> v.str]
      [] v.py = "int" -> JsonNumber(v.int)
      [] OTHER -> [type |-> "null", text |-> <<>>]

\* json.load of one value
JsonDecode(j) ==
    CASE j.type = "string" -> PyStr(j.text)
      [] j.type = "number" -> PyInt(ParseInt(j.text))
      [] OTHER -> PyNone

\* the states a finished run returns, as far as the export is concerned:
\* a run that needed no action made no selection and no retry
TerminalStates ==
    { [workflow_status |-> PyStr(<<"IN_PROGRESS">>),
       iteration_count |-> PyInt(0), optimal_index |-> PyNone] }
    \cup
    { [workflow_status |-> PyStr(<<status>>), iteration_count |-> PyInt(i),
       optimal_index |-> PyInt(k)] :
          status \in {"COMPLETED", "ESCALATED"}, i \in 0..MaxIterationsBound,
          k \in 0..(NumCandidates - 1) }

\* json.dump(result, f, indent=2, default=str)
json_dump ==
    /\ js_pc = "result"
    /\ js_text' = Some([key \in DOMAIN js_state |-> JsonEncode(js_state[key])])
    /\ js_pc' = "saved"
    /\ UNCHANGED <<js_state, js_loaded, workflow_vars, selection_vars,
                   bus_vars, db_vars, adv_vars, tool_vars>>

\* json.load of the file main wrote
json_load ==
    /\ js_pc = "saved"
    /\ js_loaded' = Some([key \in DOMAIN js_text[1] |->
                             JsonDecode(js_text[1][key])])
    /\ js_pc' = "loaded"
    /\ UNCHANGED <<js_state, js_text, workflow_vars, selection_vars,
                   bus_vars, db_vars, adv_vars, tool_vars>>

InitJson ==
    /\ WorkflowIdle /\ SelectionIdle /\ BusIdle /\ DbIdle /\ AdvisoryIdle
    /\ ToolIdle
    /\ js_pc = "result"
    /\ js_state \in TerminalStates
    /\ js_text = None
    /\ js_loaded = None

NextJson == json_dump \/ json_load

SpecJson == InitJson /\ [][NextJson]_vars

----------------------------------------------------------------------------
(* Properties of the workflow controller *)

Returned == pc = "END"

RequiresAction == IsSet(threat_assessment)
                  /\ threat_assessment[1].requires_deflection

\* C1: iteration_count never exceeds max_iterations, and a REJECT routed
\* while iteration_count has reached max_iterations goes to human_escalation,
\* never back to agent_2.
C1_IterationBound ==
    /\ [](iteration_count <= config.max_iterations)
    /\ [][(pc = "route_after_agent_3" /\ RoutedVerdict = "REJECT"
           /\ iteration_count >= config.max_iterations)
          => (pc' = "human_escalation" /\ iteration_count' = iteration_count)]_vars

\* a REJECT arrived with the retry budget used up and was escalated
C1_Witness ==
    /\ pc = "human_escalation"
    /\ last_step = Step("route_after_agent_3", "human_escalation")
    /\ RoutedVerdict = "REJECT"
    /\ config.max_iterations > 0
    /\ iteration_count = config.max_iterations

\* C2 as claimed: with max_iterations = 3 the third REJECT verdict ends the
\* run: it is escalated with iteration_count = 3 and Strategy Generation is
\* not entered again.
C2_ThreeRejectsEscalate ==
    (config.max_iterations = DefaultMaxIterations /\ rejects = 3
     /\ pc # "route_after_agent_3")
    => /\ pc \in {"human_escalation", "END"}
       /\ iteration_count = 3
       /\ (Returned => workflow_status = "ESCALATED")

\* C2 as amended: with max_iterations = 3 it is the fourth REJECT verdict
\* that ends the run: it is escalated with iteration_count = 3, status
\* ESCALATED, and Strategy Generation is not entered again.
C2_FourRejectsEscalate ==
    (config.max_iterations = DefaultMaxIterations /\ rejects = 4
     /\ pc # "route_after_agent_3")
    => /\ pc \in {"human_escalation", "END"}
       /\ iteration_count = 3
       /\ (Returned => workflow_status = "ESCALATED")

C2_Witness ==
    /\ config.max_iterations = DefaultMaxIterations
    /\ rejects = 4
    /\ Returned
    /\ workflow_status = "ESCALATED"

\* C3: whenever run_aegis_workflow returns, workflow_status is one of
\* COMPLETED, REJECTED, ESCALATED, ERROR.
C3_TerminalStatus ==
    Returned => workflow_status \in {"COMPLETED", "REJECTED", "ESCALATED",
                                     "ERROR"}

\* C4: a threat assessment without requires_deflection sends the run
\* directly to End, and the returned state has status COMPLETED.
C4_NoActionCompleted ==
    (IsSet(threat_assessment) /\ ~RequiresAction
     /\ pc # "route_after_agent_1")
    => (Returned /\ workflow_status = "COMPLETED")

\* C5: when requires_deflection is false the Strategy stage is never run:
\* candidates and selection stay unset, iteration_count stays 0 and the run
\* goes from the routing step to End.
C5_NoActionNoStrategy ==
    (IsSet(threat_assessment) /\ ~RequiresAction)
    => /\ simulation_candidates = None
       /\ quantum_result = None
       /\ iteration_count = 0
       /\ pc \in {"route_after_agent_1", "END"}

C5_Witness ==
    /\ Returned
    /\ IsSet(threat_assessment)
    /\ ~RequiresAction
    /\ last_step = Step("route_after_agent_1", "END")

StageFailed ==
    /\ last_step.step \in {"agent_1", "agent_2", "agent_3"}
    /\ last_step.outcome \in {"raised", "no_answer", "crashed"}

\* C6: a stage that fails sets status ERROR and the controller goes
\* directly to End: no routing function and no later stage runs.
C6_FailureEndsRun ==
    StageFailed => (workflow_status = "ERROR" /\ Returned)

\* C7: when the validator cannot validate (SafetyValidator raises or gives
\* no answer), the run records no APPROVE verdict, does not enter
\* final_decision and does not end COMPLETED.
C7_ValidatorFailureFailsRun ==
    (error = Some("agent_3") /\ IsSet(safety_evaluation))
    => /\ safety_evaluation[1].verdict # "APPROVE"
       /\ pc # "final_decision"
       /\ workflow_status # "COMPLETED"

\* the advisory call of the Threat stage raised (no answer was logged)
AdvisoryFailed ==
    /\ IsSet(threat_assessment)
    /\ threat_assessment[1].error
    /\ execution_log = <<>> \/ execution_log[1].agent # "agent_1"

\* the advisory answered and the answer holds no parseable risk score
AdvisoryUnparseable ==
    /\ IsSet(threat_assessment)
    /\ ~threat_assessment[1].error
    /\ IsSet(threat_assessment[1].raw_response)
    /\ ~HasRiskScore(threat_assessment[1].raw_response[1])

\* C8: when the advisory service fails or its answer holds no parseable
\* risk score, risk_score is the formula-only value and requires_deflection
\* is that value compared with the configured threshold.
C8_FormulaFallback ==
    (AdvisoryFailed \/ AdvisoryUnparseable)
    => /\ threat_assessment[1].risk_score = FormulaRiskScore(asteroid_data)
       /\ threat_assessment[1].requires_deflection
          = (FormulaRiskScore(asteroid_data) >= config.risk_threshold)

\* C9: whenever the threat assessment is set, requires_deflection holds
\* exactly when risk_score >= risk_threshold.
C9_RequiresActionIffThreshold ==
    IsSet(threat_assessment)
    => (threat_assessment[1].requires_deflection
        = (threat_assessment[1].risk_score >= config.risk_threshold))

----------------------------------------------------------------------------
(* Properties of the selection engine *)

\* C10: for every 16-candidate set the index reported by the amplification
\* path equals the index the deterministic fallback returns for the same
\* scores and validity flags.
C10_SameWinningIndex ==
    (qi_pc = "returned" /\ ~qi_result[1].selected.is_classical_fallback)
    => qi_result[1].selected.optimal_index
       = _run_classical_fallback(qi_candidates).optimal_index


Called == qi_calls >= 1

Selected == qi_pc = "returned"

\* the first call wrote a default into the list
DefaultsWritten == Called /\ Len(qi_input) = NumCandidates /\ qi_candidates # qi_input

\* C11: calling run_quantum_optimization again on the list the first call
\* left (in-place defaults included) returns the same optimal_index.
C11_SelectIdempotent ==
    (qi_engine = "classical" /\ Selected /\ qi_calls >= 2)
    => qi_result[1].selected.optimal_index
       = qi_previous[1].selected.optimal_index

\* a second call returned on a list in which the first call filled a default
C11_Witness ==
    /\ qi_engine = "classical"
    /\ Selected
    /\ qi_calls >= 2
    /\ DefaultsWritten
    /\ qi_result[1].selected.optimal_index > 0

\* the winner is valid and no valid candidate has a higher score
WinnerIsBestValid ==
    LET winner == qi_result[1].selected.optimal_index
    IN  /\ qi_result[1].optimal_candidate.validity = Some(TRUE)
        /\ ValidAt(qi_candidates, winner)
        /\ \A i \in 0..(NumCandidates - 1) :
               ValidAt(qi_candidates, i)
               => ScoreAt(qi_candidates, i) <= ScoreAt(qi_candidates, winner)

\* C12: for every 16-candidate set with a valid candidate the returned
\* candidate is valid and has the maximal score among the valid ones, in
\* whichever mode the search ran.
C12_WinnerValidAndBest ==
    (Selected /\ HasValid(qi_candidates)) => WinnerIsBestValid

AllInvalid(candidates) ==
    \A k \in 1..Len(candidates) : candidates[k].validity = Some(FALSE)

\* C13: when all 16 candidates are invalid the engine returns index 0 and
\* does not raise, in both variants; the amplification variant catches the
\* 'no valid candidates' error and uses the deterministic mode.
C13_AllInvalidIndexZero ==
    (Called /\ Len(qi_input) = NumCandidates /\ AllInvalid(qi_input))
    => /\ Selected
       /\ qi_result[1].selected.optimal_index = 0
       /\ qi_result[1].selected.is_classical_fallback

\* the amplification variant with qiskit present returned for an all-invalid set
C13_Witness ==
    /\ qi_engine = "grover"
    /\ qi_qiskit
    /\ Called
    /\ Len(qi_input) = NumCandidates
    /\ AllInvalid(qi_input)
    /\ Selected
    /\ qi_result[1].selected.optimal_index = 0
    /\ \E k \in 2..NumCandidates : ScoreAt(qi_input, k - 1) > ScoreAt(qi_input, 0)

\* C14: a call with a list whose length is not 16 raises: no selection is
\* returned, the list is not padded and no candidate is modified.
C14_WrongLengthRaises ==
    (Called /\ Len(qi_input) # NumCandidates)
    => /\ qi_pc = "raised"
       /\ qi_result = None
       /\ qi_candidates = qi_input

\* a list of 15 candidates without ids was refused
C14_Witness ==
    /\ qi_engine = "classical"
    /\ qi_pc = "raised"
    /\ Len(qi_input) = NumCandidates - 1
    /\ \E k \in 1..Len(qi_input) : ~IsSet(qi_input[k].id)

HasDuplicateIds(candidates) ==
    \E i, j \in 1..Len(candidates) :
        /\ i < j
        /\ IsSet(candidates[i].id)
        /\ candidates[i].id = candidates[j].id

\* C15: a call with 16 candidates of which two carry the same id raises an
\* input-contract error and returns no selection.
C15_DuplicateIdsRaise ==
    (Called /\ Len(qi_input) = NumCandidates /\ HasDuplicateIds(qi_input))
    => (qi_pc = "raised" /\ qi_result = None)

\* the list is the Strategy stage's (prepared from the raw candidates)
Prepared == IsSet(qi_raw) /\ qi_pc # "raw"

\* C16: the list the Strategy stage hands to the engine has length 16 and
\* ids 0..15 in order, for any number of raw candidates; entries beyond the
\* raw ones are invalid padding, raw ones beyond 16 are dropped.
C16_PreparedListWellFormed ==
    Prepared
    => /\ Len(qi_candidates) = NumCandidates
       /\ \A k \in 1..NumCandidates : qi_candidates[k].id = Some(k - 1)
       /\ Len(qi_raw[1]) > 0
          => \A k \in 1..NumCandidates :
                IF k <= Len(qi_raw[1])
                THEN /\ qi_candidates[k].velocity_km_s
                        = qi_raw[1][k].velocity_km_s
                     /\ qi_candidates[k].strategy # "padding"
                ELSE /\ qi_candidates[k].strategy = "padding"
                     /\ qi_candidates[k].validity = Some(FALSE)
       /\ Len(qi_raw[1]) = 0
          => \A k \in 1..NumCandidates : qi_candidates[k].strategy # "padding"

\* three raw candidates were padded to 16 and the engine was called
C16_Witness ==
    /\ Prepared
    /\ Called
    /\ Len(qi_raw[1]) = 3
    /\ qi_candidates[4].strategy = "padding"
    /\ qi_candidates[16].id = Some(15)

\* thread t is in no call and the last call it made was a publish that
\* returned
Published(t) == bus_pc[t] = "idle" /\ bus_last[t] = "publish"

C18_SubscriptionOrder ==
    \A t \in Threads : Published(t) => invoked[t] = expected[t]

\* the number of times a callback occurs in a list
Count(list, callback) ==
    Cardinality({ i \in 1..Len(list) : list[i] = callback })

\* no thread is in a call of the bus
Quiescent == \A t \in Threads : bus_pc[t] = "idle"

\* C19: under every interleaving of subscribe, unsubscribe and publish calls
\* of concurrent threads, once all calls have completed each topic's list
\* holds exactly the registrations that were subscribed and not unsubscribed,
\* and no publish takes its list while another thread is updating one.
C19_NoSubscriptionLost ==
    /\ Quiescent =>
         \A topic \in Topics, callback \in Callbacks :
             Count(Get(_subscribers[topic], <<>>), callback)
                 = Count(InForce(topic), callback)
    /\ \A t \in Threads :
         bus_pc[t] = "publish_snapshot" =>
             \A u \in Threads \ {t} :
                 bus_pc[u] \notin {"subscribe_check", "subscribe_append",
                                   "unsubscribe_remove", "publish_snapshot"}

\* no run is inside get_database or insert_log
DbQuiescent == \A r \in Runs : db_pc[r] \in {"idle", "connected"}

\* C20: when several runs insert records with id 0 into the shared
\* in-memory store concurrently, every insert is assigned a distinct id and
\* every inserted record is still stored afterwards under its id.
C20_DistinctIdsNoOverwrite ==
    DbQuiescent =>
        \A r \in Runs : \A k \in 1..Len(db_inserted[r]) :
            /\ \A q \in Runs : \A j \in 1..Len(db_inserted[q]) :
                   <<q, j>> # <<r, k>> => db_inserted[q][j] # db_inserted[r][k]
            /\ [key |-> db_inserted[r][k], value |-> [run |-> r, n |-> k]]
                   \in instances[_database[1]].agent_logs

\* the i-th invocation of the service by this _call_agent was rate-limited
RateLimitedAt(i) ==
    /\ llm_history[i].outcome.kind = "error"
    /\ RateLimited(llm_history[i].outcome.error)

\* C21: one execution of the Threat agent's _call_agent invokes the
\* reasoning service at most 3 times; an invocation after the first follows
\* a rate-limited one and the 35-second sleep; and when all 3 invocations
\* were rate-limited the call raises, it neither loops nor returns.
C21_BoundedRetries ==
    /\ Len(llm_history) <= 3
    /\ \A i \in 2..Len(llm_history) :
         /\ RateLimitedAt(i - 1)
         /\ llm_history[i].at = llm_history[i - 1].at + 35
    /\ (Len(llm_history) = 3 /\ \A i \in 1..3 : RateLimitedAt(i)) =>
         \/ llm_pc = "sleep"
         \/ llm_pc = "raised" /\ IsSet(llm_error)

\* three rate-limited invocations, 105 seconds of sleep, then the raise
C21_Witness ==
    /\ llm_pc = "raised"
    /\ Len(llm_history) = 3
    /\ \A i \in 1..3 : RateLimitedAt(i)
    /\ llm_clock = 105

\* the i-th invocation of the service failed with another error
OtherFailureAt(i) ==
    /\ llm_history[i].outcome.kind = "error"
    /\ ~Contains(llm_history[i].outcome.error, "429")
    /\ ~Contains(llm_history[i].outcome.error, "RESOURCE_EXHAUSTED")

\* C22: a failure of the service whose message contains neither '429' nor
\* 'RESOURCE_EXHAUSTED' leaves _call_agent at once, on whichever attempt it
\* occurs: it is the last invocation, no sleep follows it and the exception
\* that leaves the call is that failure.
C22_OtherFailurePropagates ==
    \A i \in 1..Len(llm_history) :
        OtherFailureAt(i) =>
            /\ i = Len(llm_history)
            /\ llm_pc = "raised"
            /\ llm_error = Some(llm_history[i].outcome.error)
            /\ llm_clock = llm_history[i].at

\* another failure on the third attempt, after two rate-limited ones
C22_Witness ==
    /\ Len(llm_history) = 3
    /\ OtherFailureAt(3)
    /\ llm_pc = "raised"

\* the last stage executed computed its result and then met a record-store
\* failure in its insert
StoreFailed == last_step.outcome = "db_failed"

\* the verdict the Safety stage logged just before its insert
LoggedVerdict ==
    IF execution_log[Len(execution_log)].action = "SAFETY_APPROVED"
    THEN "APPROVE" ELSE "REJECT"

\* C23: a record-store failure during a stage's insert leaves in the state
\* the result the stage had computed: the threat assessment is the computed
\* one, not the error default, the selection is in place, and the safety
\* verdict is the one the stage computed and logged.
C23_StoreFailureKeepsResult ==
    StoreFailed =>
        /\ last_step.step = "agent_1" =>
               IsSet(threat_assessment) /\ ~threat_assessment[1].error
        /\ last_step.step = "agent_2" =>
               IsSet(simulation_candidates) /\ IsSet(quantum_result)
        /\ last_step.step = "agent_3" =>
               /\ IsSet(safety_evaluation)
               /\ ~safety_evaluation[1].error
               /\ safety_evaluation[1].verdict = LoggedVerdict

\* the stages of the workflow graph
Stages == {"agent_1", "agent_2", "agent_3", "final_decision",
           "human_escalation"}

\* C24: every stage execution publishes an event when it is entered and an
\* event when it exits, on every path: a stage that has just run has
\* published at least two events.
C24_EntryAndExitPublished ==
    last_step.step \in Stages => Len(published) >= 2

\* the actions the stages log on their success paths
CompletionActions ==
    {"THREAT_ASSESSMENT_COMPLETE", "QUANTUM_OPTIMIZATION_COMPLETE",
     "SAFETY_APPROVED", "SAFETY_REJECTED", "SAFETY_UNKNOWN"}

\* an exception was raised inside the last stage executed
StageRaised ==
    /\ last_step.step \in {"agent_1", "agent_2", "agent_3"}
    /\ last_step.outcome \in {"raised", "no_answer", "crashed", "db_failed"}

\* C25: an error raised inside a stage is recorded in the execution log:
\* after the stage, the log holds an entry of that stage which is not one
\* of its completion entries.
C25_StageErrorLogged ==
    StageRaised =>
        \E i \in 1..Len(execution_log) :
            /\ execution_log[i].agent = last_step.step
            /\ execution_log[i].action \notin CompletionActions

----------------------------------------------------------------------------
(* Properties of the safety tool *)

\* the checks that fail when each comparison is strict on the side the
\* documented criteria give: below 100%, above 10,000 km, above 70%
ExpectedFailed(a) ==
    (IF a.fragmentation_risk_pct < 100 THEN {}
     ELSE {"FRAGMENTATION_CRITICAL"})
    \cup (IF a.deflection_distance_km > 10000 THEN {}
          ELSE {"DEFLECTION_INSUFFICIENT"})
    \cup (IF a.quantum_confidence > 70 THEN {} ELSE {"CONFIDENCE_LOW"})

\* C26: evaluate_safety_score returns APPROVE exactly when fragmentation
\* risk is below 100%, deflection distance is greater than 10,000 km and
\* confidence is greater than 70%; otherwise, the boundary values included,
\* it returns REJECT, and checks_failed names exactly the failed checks.
C26_ApproveIffAllChecksPass ==
    st_pc = "returned" =>
        LET r == st_result[1]
            failed == {r.checks_failed[i] : i \in 1..Len(r.checks_failed)}
        IN  /\ r.recommendation =
                   (IF ExpectedFailed(st_args) = {} THEN "APPROVE"
                    ELSE "REJECT")
            /\ failed = ExpectedFailed(st_args)
            /\ Len(r.checks_failed) = Cardinality(failed)

----------------------------------------------------------------------------
(* Properties of the retry loop and of the stage order *)

\* C27: whenever the state holds a safety evaluation with verdict REJECT,
\* its feedback is a non-empty string.
C27_RejectHasFeedback ==
    (IsSet(safety_evaluation) /\ safety_evaluation[1].verdict = "REJECT") =>
        Truthy(safety_evaluation[1].feedback)

\* the Strategy stage has just run as a retry and reached its planner
RetriedStrategy ==
    /\ last_step.step = "agent_2"
    /\ iteration_count > 0
    /\ hints.planner_called

\* C28: the router that sends a REJECT back to agent_2 adds exactly one to
\* iteration_count, and the Strategy stage that then runs passes the
\* feedback of that REJECT to its planner input and, when it calls the
\* candidate generator, to the generator.
C28_RetryCarriesFeedback ==
    /\ [][(pc = "route_after_agent_3" /\ pc' = "agent_2") =>
              iteration_count' = iteration_count + 1]_vars
    /\ [](RetriedStrategy =>
              /\ IsSet(safety_evaluation)
              /\ safety_evaluation[1].verdict = "REJECT"
              /\ hints.planner = safety_evaluation[1].feedback
              /\ hints.generator_called =>
                     hints.generator = safety_evaluation[1].feedback)

\* C29: whenever the Safety stage starts, the state holds 16 candidates and
\* a selection, both made by the Strategy stage that ran immediately before
\* it.
C29_SafetyHasSelection ==
    pc = "agent_3" =>
        /\ last_step.step = "agent_2"
        /\ last_step.outcome \in {"planned", "db_failed"}
        /\ IsSet(simulation_candidates)
        /\ Len(simulation_candidates[1]) = NumCandidates
        /\ IsSet(quantum_result)

\* C30: final_decision is entered only by the router that follows a Safety
\* stage whose verdict in the state is APPROVE, and it ends the run with
\* status COMPLETED; human_escalation is entered only by that router on a
\* REJECT with iteration_count >= max_iterations, and it ends the run with
\* status ESCALATED; after either stage the run is at END and stays there.
C30_TerminalStages ==
    /\ [][pc' = "final_decision" =>
              \/ pc = "final_decision"
              \/ /\ pc = "route_after_agent_3"
                 /\ last_step.step = "agent_3"
                 /\ RoutedVerdict = "APPROVE"]_vars
    /\ [][pc' = "human_escalation" =>
              \/ pc = "human_escalation"
              \/ /\ pc = "route_after_agent_3"
                 /\ last_step.step = "agent_3"
                 /\ RoutedVerdict = "REJECT"
                 /\ iteration_count >= config.max_iterations]_vars
    /\ [][pc = "final_decision" =>
              \/ pc' = "final_decision"
              \/ pc' = "END" /\ workflow_status' = "COMPLETED"]_vars
    /\ [][pc = "human_escalation" =>
              \/ pc' = "human_escalation"
              \/ pc' = "END" /\ workflow_status' = "ESCALATED"]_vars
    /\ [](last_step.step = "final_decision" =>
              pc = "END" /\ workflow_status = "COMPLETED")
    /\ [](last_step.step = "human_escalation" =>
              pc = "END" /\ workflow_status = "ESCALATED")

\* a run that was escalated after its retries were used up
C30_Witness ==
    /\ pc = "END"
    /\ last_step.step = "human_escalation"
    /\ workflow_status = "ESCALATED"
    /\ iteration_count = config.max_iterations
    /\ RoutedVerdict = "REJECT"

----------------------------------------------------------------------------
(* Properties of the export of a finished run *)

----------------------------------------------------------------------------
(* Further properties of the workflow controller *)

\* the Strategy stage has just run and wrote candidates and a selection
SelectedInLastStage ==
    /\ last_step.step = "agent_2"
    /\ last_step.outcome \in {"planned", "db_failed"}

\* C32: after an execution of the Strategy stage the state holds no
\* candidates and no selection other than the ones that execution wrote:
\* whatever candidates or selection the state holds then were generated in
\* that execution.
C32_SelectionIsFresh ==
    (last_step.step = "agent_2"
       /\ (IsSet(simulation_candidates) \/ IsSet(quantum_result))) =>
        SelectedInLastStage

\* C33: iteration_count is 0 when the run starts and only the routing step
\* that sends a verdict other than APPROVE back to agent_2 changes it, by
\* adding 1; every stage and every other routing outcome leaves it unchanged.
C33_IterationCountFrame ==
    /\ [](last_step.step = "start" => iteration_count = 0)
    /\ [][iteration_count' # iteration_count =>
              /\ pc = "route_after_agent_3"
              /\ pc' = "agent_2"
              /\ RoutedVerdict # "APPROVE"
              /\ iteration_count' = iteration_count + 1]_vars
    /\ [][(pc = "route_after_agent_3" /\ pc' = "agent_2") =>
              iteration_count' # iteration_count]_vars

\* a run in its second retry that ended with an approval
C33_Witness ==
    /\ pc = "END"
    /\ iteration_count = 2
    /\ workflow_status = "COMPLETED"
    /\ executions.agent_2 = 3

\* C34: the execution log only grows at its end: a step either leaves it
\* unchanged or appends exactly one entry after the entries it held.
C34_LogAppendOnly ==
    [][\/ execution_log' = execution_log
       \/ /\ Len(execution_log') = Len(execution_log) + 1
          /\ SubSeq(execution_log', 1, Len(execution_log)) = execution_log]_vars

\* a finished run whose log holds the entries of a retry, in stage order
C34_Witness ==
    /\ pc = "END"
    /\ Len(execution_log) >= 6
    /\ execution_log[1].agent = "agent_1"
    /\ execution_log[2].agent = "agent_2"
    /\ execution_log[3].action = "SAFETY_REJECTED"
    /\ execution_log[Len(execution_log)].agent = "orchestrator"

\* the callbacks subscribed to topic 'agent_2/plan'
PlanSubscribers == Len(Get(_subscribers["agent_2/plan"], <<>>))

\* C40: a run returns with as many callbacks subscribed to 'agent_2/plan'
\* as there were when it started, which is none.
C40_SubscriptionsDoNotAccumulate ==
    Returned => PlanSubscribers = 0

\* C35: every run reaches END, and on the way the Threat stage runs exactly
\* once and the Strategy stage and the Safety stage each run at most
\* max_iterations + 1 times.
C35_RunTerminates ==
    /\ <>Returned
    /\ [](/\ executions.agent_2 <= config.max_iterations + 1
          /\ executions.agent_3 <= config.max_iterations + 1
          /\ executions.agent_1 <= 1
          /\ Returned => executions.agent_1 = 1)

\* the decision _parse_decision gave in the Safety stage that has just run
\* and answered: REJECT stands for REJECTED and UNKNOWN, no_answer for ERROR
Decided ==
    /\ last_step.step = "agent_3"
    /\ last_step.outcome \in {"APPROVE", "REJECT", "no_answer"}

\* C36: the Safety stage records verdict APPROVE exactly when the parsed
\* decision is APPROVED; REJECTED, UNKNOWN and ERROR are recorded as REJECT.
C36_ApproveOnlyWhenApproved ==
    Decided =>
        /\ IsSet(safety_evaluation)
        /\ safety_evaluation[1].verdict =
               (IF last_step.outcome = "APPROVE" THEN "APPROVE" ELSE "REJECT")

----------------------------------------------------------------------------
(* Further properties of the selection engine *)

\* the valid candidates that share the winner's score
TiedWithWinner ==
    LET winner == qi_result[1].selected.optimal_index
    IN  { i \in 0..(NumCandidates - 1) :
            /\ ValidAt(qi_candidates, i)
            /\ ScoreAt(qi_candidates, i) = ScoreAt(qi_candidates, winner) }

\* C37: the deterministic selection returns a valid candidate of maximal
\* score, and of the valid candidates that share that score it returns the
\* one with the lowest index.
C37_TieLowestIndex ==
    (Selected /\ qi_result[1].selected.is_classical_fallback
       /\ HasValid(qi_candidates)) =>
        LET winner == qi_result[1].selected.optimal_index
        IN  /\ ValidAt(qi_candidates, winner)
            /\ \A i \in 0..(NumCandidates - 1) :
                   ValidAt(qi_candidates, i) =>
                       ScoreAt(qi_candidates, i) <= ScoreAt(qi_candidates, winner)
            /\ \A i \in TiedWithWinner : winner <= i

\* two valid candidates share the best score and the first of them, which
\* is not the first of the list, won
C37_Witness ==
    /\ Selected
    /\ qi_engine = "classical"
    /\ qi_result[1].selected.is_classical_fallback
    /\ qi_result[1].selected.optimal_index > 0
    /\ Cardinality(TiedWithWinner) >= 2

----------------------------------------------------------------------------
(* Further properties of the event bus *)

\* list a is a prefix of list b
IsPrefix(a, b) == Len(a) <= Len(b) /\ SubSeq(b, 1, Len(a)) = a

\* the statements inside a with _lock block
LockedStatements ==
    {"subscribe_check", "subscribe_append", "unsubscribe_remove",
     "publish_snapshot"}

\* C38: publish calls exactly the callbacks of the list it copied under the
\* lock, in order: the copy is the topic's list at that moment, no subscribe
\* or unsubscribe made during delivery, by a callback or by another thread,
\* changes it, and the publisher does not hold the lock during delivery (the
\* lock is held only inside the with blocks), so a callback that calls the
\* bus is not blocked by its own publisher.
C38_SnapshotDelivery ==
    /\ [](\A t \in Threads :
            /\ bus_pc[t] = "publish_deliver" =>
                   _lock # Some(t) /\ IsPrefix(invoked[t], listeners[t])
            /\ Published(t) => invoked[t] = listeners[t])
    /\ [](IsSet(_lock) => bus_pc[_lock[1]] \in LockedStatements)
    /\ [][\A t \in Threads :
            /\ (bus_pc[t] = "publish_snapshot" /\ bus_pc'[t] # bus_pc[t]) =>
                   listeners'[t] = Get(_subscribers[bus_frame[t].topic], <<>>)
            /\ (bus_pc[t] = "publish_deliver"
                  /\ bus_pc'[t] = "publish_deliver") =>
                   listeners'[t] = listeners[t]]_vars

\* a publish in flight whose first callback changed the topic's list while
\* no other thread has called the bus since the copy was taken
C38_Witness ==
    \E t \in Threads :
        /\ bus_pc[t] = "publish_deliver"
        /\ Len(listeners[t]) = 2
        /\ Len(invoked[t]) = 1
        /\ Get(_subscribers[bus_frame[t].topic], <<>>) # listeners[t]
        /\ Len(Get(_subscribers[bus_frame[t].topic], <<>>)) = 1
        /\ Get(_subscribers[bus_frame[t].topic], <<>>)[1] # listeners[t][1]
        /\ \A u \in Threads \ {t} : bus_pc[u] = "idle" /\ bus_last[u] = "none"

\* the callbacks subscribed to a topic, in list order
ListOf(subs, topic) == Get(subs[topic], <<>>)

\* C39: a call of an unsubscribe function removes the one registration its
\* subscribe call created and nothing else: the lists of other topics and
\* the entries of other callbacks stay as they are, and the callback's own
\* entries on the topic go down by one when the registration was still in
\* force and stay as they are when it had been removed before.
C39_UnsubscribeOwnRegistration ==
    [][\A t \in Threads :
         (bus_pc[t] = "unsubscribe_remove" /\ bus_pc'[t] = "idle") =>
            LET topic == bus_frame[t].topic
                callback == bus_frame[t].callback
                before == ListOf(_subscribers, topic)
                after == ListOf(_subscribers', topic)
            IN  /\ \A other \in Topics \ {topic} :
                       _subscribers'[other] = _subscribers[other]
                /\ \A cb \in Callbacks \ {callback} :
                       Count(after, cb) = Count(before, cb)
                /\ Count(after, callback) =
                       Count(before, callback)
                       - (IF registrations[bus_frame[t].handle].active
                          THEN 1 ELSE 0)]_vars
====
